---- MODULE Spec2Model ----
(***************************************************************************)
(* The persistent job engine of gmaildigest-go: the cron evaluator, the    *)
(* SQLite job store, the scheduler's working set and wake-loop, the        *)
(* callback-driven worker pool and the JobTask adapter between them.       *)
(*                                                                         *)
(* Time is counted in ticks, TicksPerMinute of them to the minute, from    *)
(* 2024-01-01T00:00:00Z (a Monday).  Text is a sequence of one-character   *)
(* strings, so that the parser works on what it is given.                  *)
(***************************************************************************)
EXTENDS Integers, Sequences, FiniteSets, TLC

\* ---------------------------------------------------------------- bounds
TicksPerMinute == 2
MaxTime == 4
SearchLimit == 4
MaxDrawnRetries == 10
MaxCalls == 3
MaxRows == 3

\* ------------------------------------------------------- program constants
MinuteMax == 59
HourMax == 23
DayMax == 31
MonthMax == 12
WeekdayMax == 6
FallbackMinutes == 60
IdleHorizonMinutes == 1440
BackoffCapMinutes == 1440
RetryCap == 5
WakeupCap == 1
QueuePerWorker == 2
\* the retry cap of the persistence schema: retry_count >= 10 is a dead letter
MaxRetries == 10
\* maxRetries of the retrying worker pool
PoolMaxRetries == 10
RefreshMinutes == 60

\* time.Time{}: the zero instant, earlier than every instant of the model
ZeroTime == -1
\* what a call that never returns yields
NeverReturns == -2
\* a nil *time.Time
NilTime == -3

\* ------------------------------------------------------------------ text
Digits == <<"0", "1", "2", "3", "4", "5", "6", "7", "8", "9">>

IsDigit(c) == \E i \in 1..10 : Digits[i] = c

DigitVal(c) == (CHOOSE i \in 1..10 : Digits[i] = c) - 1

Contains(s, c) == \E i \in 1..Len(s) : s[i] = c

\* index of the first c in s at or after position from, Len(s)+1 when none
RECURSIVE IndexFrom(_, _, _)
IndexFrom(s, c, from) ==
    IF from > Len(s) THEN Len(s) + 1
    ELSE IF s[from] = c THEN from
    ELSE IndexFrom(s, c, from + 1)

\* strings.Split(s, sep) for a one-character sep: empty pieces are kept
RECURSIVE Split(_, _)
Split(s, sep) ==
    LET i == IndexFrom(s, sep, 1)
    IN  IF i > Len(s) THEN <<s>>
        ELSE <<SubSeq(s, 1, i - 1)>> \o Split(SubSeq(s, i + 1, Len(s)), sep)

\* strings.Fields(s): the maximal runs of non-space characters
Fields(s) == SelectSeq(Split(s, " "), LAMBDA f : Len(f) > 0)

RECURSIVE DigitsVal(_)
DigitsVal(s) ==
    IF Len(s) = 0 THEN 0
    ELSE 10 * DigitsVal(SubSeq(s, 1, Len(s) - 1)) + DigitVal(s[Len(s)])

\* the digits of strconv.Atoi once the sign is read: at least one, all decimal
AtoiDigits(negative, body) ==
    IF Len(body) = 0 \/ \E i \in 1..Len(body) : ~IsDigit(body[i])
    THEN [ok |-> FALSE, val |-> 0]
    ELSE [ok |-> TRUE,
          val |-> IF negative THEN 0 - DigitsVal(body) ELSE DigitsVal(body)]

\* strconv.Atoi: an optional sign and at least one decimal digit
Atoi(s) ==
    IF Len(s) > 0 /\ s[1] \in {"+", "-"}
    THEN AtoiDigits(s[1] = "-", SubSeq(s, 2, Len(s)))
    ELSE AtoiDigits(FALSE, s)

\* -------------------------------------------------------- cron evaluator
CronError == [ok |-> FALSE, set |-> {}]

\* a part "start-end" of a field, its two numbers converted
cronRange(start, end, min, max) ==
    IF ~start.ok \/ ~end.ok \/ start.val > end.val
       \/ start.val < min \/ end.val > max
    THEN CronError
    ELSE [ok |-> TRUE, set |-> start.val..end.val]

\* a part of a field holding a "-", split at it
cronRangeParts(rangeParts, min, max) ==
    IF Len(rangeParts) # 2 THEN CronError
    ELSE cronRange(Atoi(rangeParts[1]), Atoi(rangeParts[2]), min, max)

\* a part of a field that is one number, converted
cronValue(val, min, max) ==
    IF ~val.ok \/ val.val < min \/ val.val > max THEN CronError
    ELSE [ok |-> TRUE, set |-> {val.val}]

\* one comma-separated part of a field
parseCronPart(part, min, max) ==
    IF Contains(part, "-") THEN cronRangeParts(Split(part, "-"), min, max)
    ELSE cronValue(Atoi(part), min, max)

\* the parts of a field, each parsed, put together
cronParts(parsed) ==
    IF \E i \in 1..Len(parsed) : ~parsed[i].ok THEN CronError
    ELSE [ok |-> TRUE, set |-> UNION {parsed[i].set : i \in 1..Len(parsed)}]

cronSplit(parts, min, max) ==
    cronParts([i \in 1..Len(parts) |-> parseCronPart(parts[i], min, max)])

parseCronField(field, min, max) ==
    IF field = <<"*">> THEN [ok |-> TRUE, set |-> min..max]
    ELSE cronSplit(Split(field, ","), min, max)

\* the five fields of an expression, each parsed, put together
cronFields(minute, hour, day, month, weekday) ==
    IF ~minute.ok \/ ~hour.ok \/ ~day.ok \/ ~month.ok \/ ~weekday.ok
    THEN [ok |-> FALSE]
    ELSE [ok |-> TRUE, Minute |-> minute.set, Hour |-> hour.set,
          Day |-> day.set, Month |-> month.set, Weekday |-> weekday.set]

parseCronFields(fields) ==
    IF Len(fields) # 5 THEN [ok |-> FALSE]
    ELSE cronFields(parseCronField(fields[1], 0, MinuteMax),
                    parseCronField(fields[2], 0, HourMax),
                    parseCronField(fields[3], 1, DayMax),
                    parseCronField(fields[4], 1, MonthMax),
                    parseCronField(fields[5], 0, WeekdayMax))

\* strings.Fields is applied once and its result handed on
ParseCron(expr) ==
    CHOOSE cron \in {parseCronFields(fields) : fields \in {Fields(expr)}} : TRUE

\* the calendar of time.Time in UTC, from the epoch of the model
TicksPerDay == 24 * 60 * TicksPerMinute

IsLeap(y) == (y % 4 = 0 /\ y % 100 # 0) \/ y % 400 = 0

DaysInMonth(y, m) ==
    IF m = 2 THEN (IF IsLeap(y) THEN 29 ELSE 28)
    ELSE IF m \in {4, 6, 9, 11} THEN 30 ELSE 31

\* the date of the d-th day (from 0) counted from the first of month m of year y
RECURSIVE DateFrom(_, _, _)
DateFrom(y, m, d) ==
    IF d < DaysInMonth(y, m) THEN [Month |-> m, Day |-> d + 1]
    ELSE IF m = 12 THEN DateFrom(y + 1, 1, d - DaysInMonth(y, m))
    ELSE DateFrom(y, m + 1, d - DaysInMonth(y, m))

MinuteOf(t) == (t \div TicksPerMinute) % 60
HourOf(t) == (t \div (60 * TicksPerMinute)) % 24
DateOf(t) == DateFrom(2024, 1, t \div TicksPerDay)
WeekdayOf(t) == (1 + (t \div TicksPerDay)) % 7

\* the test of Next with day-of-month and weekday combined by OR
MatchesDayOrWeekday(c, t) ==
    /\ MinuteOf(t) \in c.Minute
    /\ HourOf(t) \in c.Hour
    /\ DateOf(t).Day \in c.Day \/ WeekdayOf(t) \in c.Weekday
    /\ DateOf(t).Month \in c.Month

Matches(c, t) ==
    /\ MinuteOf(t) \in c.Minute
    /\ HourOf(t) \in c.Hour
    /\ DateOf(t).Day \in c.Day
    /\ DateOf(t).Month \in c.Month
    /\ WeekdayOf(t) \in c.Weekday

\* t.Truncate(time.Minute)
TruncateMinute(t) == t - (t % TicksPerMinute)

\* the loop of Next: minute by minute until every field matches
RECURSIVE NextSearch(_, _, _)
NextSearch(c, t, fuel) ==
    IF Matches(c, t) THEN t
    ELSE IF fuel = 0 THEN NeverReturns
    ELSE NextSearch(c, t + TicksPerMinute, fuel - 1)

CronNext(c, after) ==
    NextSearch(c, TruncateMinute(after + TicksPerMinute), SearchLimit)

\* the years of one cycle of the calendar: after 400 years (20871 weeks) the
\* dates and their weekdays repeat
CalendarYears == 2024..2423

\* the leap years before year y
LeapsBefore(y) == ((y - 1) \div 4) - ((y - 1) \div 100) + ((y - 1) \div 400)

RECURSIVE DaysBeforeMonth(_, _)
DaysBeforeMonth(y, m) ==
    IF m = 1 THEN 0 ELSE DaysBeforeMonth(y, m - 1) + DaysInMonth(y, m - 1)

\* the day (from 0, the first of January 2024) of the d-th of month m of year y
DayNumber(y, m, d) ==
    365 * (y - 2024) + LeapsBefore(y) - LeapsBefore(2024)
    + DaysBeforeMonth(y, m) + d - 1

\* the loop of Next has an instant to return at: some minute of some day of
\* the calendar passes its test
HasMatch(c) ==
    /\ c.Minute # {}
    /\ c.Hour # {}
    /\ \E m \in c.Month, d \in c.Day, y \in CalendarYears :
          /\ d <= DaysInMonth(y, m)
          /\ (1 + DayNumber(y, m, d)) % 7 \in c.Weekday

\* ------------------------------------------------------------ the inputs
EveryMinute == <<"*", " ", "*", " ", "*", " ", "*", " ", "*">>
StepFive == <<"*", "/", "5", " ", "*", " ", "*", " ", "*", " ", "*">>

ThreeFields == <<"*", " ", "*", " ", "*">>

Users == {"u1"}
Types == {"echo"}
Schedules == {EveryMinute, StepFive, ThreeFields}
Payloads == {"A", "B"}
Workers == {"w1"}
Handlers == {"h1"}
NoHandler == "nil"

Keys == Users \X Types \X Schedules
JobIds == 1..Cardinality(Keys)

VARIABLES
    now,        \* the wall clock, in ticks
    Jobs,       \* Scheduler.Jobs: job id -> the Job it points to
    store,      \* the rows of the jobs table, by id
    nextId,     \* the next id uuid.New() hands out
    cancelled,  \* Scheduler.ctx is done
    cronWakeup, \* len(Scheduler.cronWakeup)
    loop,       \* the wake-loop goroutine: where it is and what it holds
    registry,   \* JobHandlerRegistry.handlers
    tasks,      \* WorkerPool.tasks: the queued JobTasks, each by its job's id
    workers,    \* the worker goroutines
    submits,    \* per job id: accepted submits since its last ScheduleJob
    pool,       \* WorkerPool: isStopped, its context, its channel, its Stop
    call        \* the call of a caller under observation and what it returned

vars == <<now, Jobs, store, nextId, cancelled, cronWakeup, loop, registry,
          tasks, workers, submits, pool, call>>

\* ------------------------------------------------------------- job store
KeyOf(job) == <<job.UserID, job.Type, job.Schedule>>

\* the UNIQUE(user_id, type, schedule) index, but for row id
UniqueTaken(st, id, job) ==
    \E other \in DOMAIN st : other # id /\ KeyOf(st[other]) = KeyOf(job)

Put(f, k, v) == [x \in DOMAIN f \cup {k} |-> IF x = k THEN v ELSE f[x]]

\* an update leaving every other row alone whatever their keys
UpdateJobUnchecked(st, live, id, job) ==
    IF ~live \/ id \notin DOMAIN st
    THEN [ok |-> FALSE, store |-> st]
    ELSE [ok |-> TRUE, store |-> Put(st, id, job)]

\* a create that asks for a new id only
CreateJobUnchecked(st, live, id, job) ==
    IF ~live \/ id \in DOMAIN st
    THEN [ok |-> FALSE, store |-> st]
    ELSE [ok |-> TRUE, store |-> Put(st, id, job)]

\* SQLiteJobStore.CreateJob under a context that is live or done
CreateJob(st, live, id, job) ==
    IF ~live \/ id \in DOMAIN st \/ UniqueTaken(st, id, job)
    THEN [ok |-> FALSE, store |-> st]
    ELSE [ok |-> TRUE, store |-> Put(st, id, job)]

\* SQLiteJobStore.UpdateJob: rows affected = 0 is "job not found"
UpdateJob(st, live, id, job) ==
    IF ~live \/ id \notin DOMAIN st \/ UniqueTaken(st, id, job)
    THEN [ok |-> FALSE, store |-> st]
    ELSE [ok |-> TRUE, store |-> Put(st, id, job)]

\* JobFilter{}: no criterion set
NoFilter == [UserID |-> "", Type |-> "", Status |-> "", NextRun |-> ZeroTime]

\* the WHERE clause SQLiteJobStore.ListJobs builds from a filter
FilterMatches(job, filter) ==
    /\ filter.UserID # "" => job.UserID = filter.UserID
    /\ filter.Type # "" => job.Type = filter.Type
    /\ filter.Status # "" => job.Status = filter.Status
    /\ filter.NextRun # ZeroTime => job.NextRun >= filter.NextRun

\* the ids of the rows SQLiteJobStore.ListJobs selects
StoreListJobs(st, filter) ==
    {id \in DOMAIN st : FilterMatches(st[id], filter)}

\* ------------------------------------------------------------- scheduler
Min(S) == CHOOSE x \in S : \A y \in S : x <= y

\* Scheduler.nextRunTime once the schedule is parsed
nextRunOf(cron, at) ==
    IF ~cron.ok THEN at + FallbackMinutes * TicksPerMinute
    ELSE CronNext(cron, at)

\* nextRunTime without its fallback: whatever cron.Next yields, parsed or not
nextRunTimeNoFallback(schedule, at) ==
    IF ParseCron(schedule).ok THEN CronNext(ParseCron(schedule), at) ELSE at

\* Scheduler.nextRunTime at instant at: the schedule is parsed once
nextRunTime(schedule, at) ==
    CHOOSE next \in {nextRunOf(cron, at) : cron \in {ParseCron(schedule)}} : TRUE

\* Scheduler.signalCronWakeup: a send that is dropped when the channel is full
signalCronWakeup(n) == IF n < WakeupCap THEN n + 1 ELSE n

\* Scheduler.JobMu is held from the start of dispatchDueJobs to its return;
\* every other holder takes and releases it within one step
JobMuFree == loop.pc \notin {"dispatch", "submitted"}

\* Metrics.mu is held by a worker from before the callback until after it
MetricsMuFree == \A w \in Workers : workers[w].pc # "cb"

DedupMatch(job, u, t, s) ==
    job.UserID = u /\ job.Type = t /\ job.Schedule = s

\* the dedup path leaving the retry count as it found it
UpsertKeepRetry(job, p, nextRun) ==
    [job EXCEPT !.Payload = p, !.Status = "pending", !.NextRun = nextRun]

\* the dedup path of ScheduleJob: what it writes into the job it found
Upsert(job, p, nextRun) ==
    [job EXCEPT !.Payload = p, !.Status = "pending", !.RetryCount = 0,
                !.NextRun = nextRun]

NewJob(u, t, s, p, nextRun) ==
    [UserID |-> u, Type |-> t, Schedule |-> s, Payload |-> p,
     Status |-> "pending", RetryCount |-> 0, LastError |-> "",
     NextRun |-> nextRun, LastRun |-> NilTime]

\* the jobs the dedup scan of ScheduleJob can stop at
Existing(u, t, s) == {id \in DOMAIN Jobs : DedupMatch(Jobs[id], u, t, s)}

\* whether ScheduleJob returns an error: its one store write failed
ScheduleJobErr(u, t, s, p) ==
    IF Existing(u, t, s) # {}
    THEN \E id \in Existing(u, t, s) :
             ~UpdateJob(store, ~cancelled, id,
                        Upsert(Jobs[id], p, nextRunTime(s, now))).ok
    ELSE ~CreateJob(store, ~cancelled, nextId,
                    NewJob(u, t, s, p, nextRunTime(s, now))).ok

\* the dedup path of ScheduleJob, job being what it made of the job it found
ScheduleExisting(id, job) ==
    LET r == UpdateJob(store, ~cancelled, id, job)
    IN  /\ Jobs' = Put(Jobs, id, job)
        /\ store' = r.store
        /\ cronWakeup' = IF r.ok THEN signalCronWakeup(cronWakeup) ELSE cronWakeup
        /\ submits' = [submits EXCEPT ![id] = 0]
        /\ UNCHANGED nextId

\* the create path of ScheduleJob
ScheduleNew(job) ==
    LET r == CreateJob(store, ~cancelled, nextId, job)
    IN  /\ store' = r.store
        /\ Jobs' = IF r.ok THEN Put(Jobs, nextId, job) ELSE Jobs
        /\ nextId' = IF r.ok THEN nextId + 1 ELSE nextId
        /\ cronWakeup' = IF r.ok THEN signalCronWakeup(cronWakeup) ELSE cronWakeup
        /\ UNCHANGED submits

\* ScheduleJob without the dedup scan, keeping the job whatever CreateJob said
ScheduleJobBlind(u, t, s, p) ==
    /\ JobMuFree
    /\ nextId \in JobIds
    /\ \E job \in {NewJob(u, t, s, p, nextRunTime(s, now))} :
           /\ store' = CreateJob(store, ~cancelled, nextId, job).store
           /\ Jobs' = Put(Jobs, nextId, job)
    /\ nextId' = nextId + 1
    /\ cronWakeup' = signalCronWakeup(cronWakeup)
    /\ UNCHANGED <<now, cancelled, loop, registry, tasks, workers, submits,
                   pool, call>>

ScheduleJob(u, t, s, p) ==
    /\ JobMuFree
    /\ IF Existing(u, t, s) # {}
       THEN \E id \in Existing(u, t, s) :
                ScheduleExisting(id, Upsert(Jobs[id], p, nextRunTime(s, now)))
       ELSE ScheduleNew(NewJob(u, t, s, p, nextRunTime(s, now)))
    /\ UNCHANGED <<now, cancelled, loop, registry, tasks, workers, pool, call>>

\* a loader that asks the store for the pending jobs only
loadPendingJobs(st) ==
    [id \in StoreListJobs(st, [NoFilter EXCEPT !.Status = "pending"]) |-> st[id]]

\* Scheduler.loadJobsFromDB: the working set NewScheduler starts with
loadJobsFromDB(st) == [id \in StoreListJobs(st, NoFilter) |-> st[id]]

RegisterHandler(t, h) ==
    /\ t # "" /\ h # NoHandler
    /\ registry' = [registry EXCEPT ![t] = h]
    /\ UNCHANGED <<now, Jobs, store, nextId, cancelled, cronWakeup, loop,
                   tasks, workers, submits, pool, call>>

Start ==
    /\ loop.pc = "idle"
    /\ loop' = [loop EXCEPT !.pc = "compute"]
    /\ UNCHANGED <<now, Jobs, store, nextId, cancelled, cronWakeup, registry,
                   tasks, workers, submits, pool, call>>

Stop ==
    /\ ~cancelled
    /\ cancelled' = TRUE
    /\ UNCHANGED <<now, Jobs, store, nextId, cronWakeup, loop, registry,
                   tasks, workers, submits, pool, call>>

\* Scheduler.findNextJobTime at instant at
findNextJobTime(jobs, at) ==
    LET horizon == at + IdleHorizonMinutes * TicksPerMinute
        sooner == {jobs[id].NextRun : id \in
                     {i \in DOMAIN jobs : jobs[i].Status = "pending"
                                          /\ jobs[i].NextRun < horizon}}
    IN  IF sooner = {} THEN horizon ELSE Min(sooner)

LoopFindNext ==
    /\ loop.pc = "compute"
    /\ loop' = [loop EXCEPT !.pc = "wait", !.next = findNextJobTime(Jobs, now)]
    /\ UNCHANGED <<now, Jobs, store, nextId, cancelled, cronWakeup, registry,
                   tasks, workers, submits, pool, call>>

LoopCancelled ==
    /\ loop.pc = "wait"
    /\ cancelled
    /\ loop' = [loop EXCEPT !.pc = "done"]
    /\ UNCHANGED <<now, Jobs, store, nextId, cancelled, cronWakeup, registry,
                   tasks, workers, submits, pool, call>>

LoopWakeup ==
    /\ loop.pc = "wait"
    /\ cronWakeup > 0
    /\ cronWakeup' = cronWakeup - 1
    /\ loop' = [loop EXCEPT !.pc = "compute"]
    /\ UNCHANGED <<now, Jobs, store, nextId, cancelled, registry, tasks,
                   workers, submits, pool, call>>

\* the timer set for loop.next has fired
TimerFired == now >= loop.next

LoopTimer ==
    /\ loop.pc = "wait"
    /\ TimerFired
    /\ loop' = [loop EXCEPT !.pc = "dispatch", !.todo = DOMAIN Jobs]
    /\ UNCHANGED <<now, Jobs, store, nextId, cancelled, cronWakeup, registry,
                   tasks, workers, submits, pool, call>>

\* the test of dispatchDueJobs without its comparison of next_run
DueIgnoringTime(job, at) == job.Status = "pending"

\* the test of dispatchDueJobs(at) on one job
Due(job, at) == job.Status = "pending" /\ ~(job.NextRun > at)

QueueCap == QueuePerWorker * Cardinality(Workers)

\* WorkerPool.Submit of a task that is not nil: whether it will return true
Accepts(p, queue) == ~p.isStopped /\ Len(queue) < QueueCap

\* a dispatch that marks the job running whatever Submit returned
LoopVisitMarksAnyway(id) ==
    /\ loop.pc = "dispatch"
    /\ id \in loop.todo
    /\ IF Due(Jobs[id], loop.next) /\ Accepts(pool, tasks)
       THEN /\ tasks' = Append(tasks, id)
            /\ submits' = [submits EXCEPT ![id] = @ + 1]
            /\ loop' = [loop EXCEPT !.pc = "submitted", !.cur = id]
            /\ UNCHANGED <<Jobs, store>>
       ELSE /\ loop' = [loop EXCEPT !.todo = @ \ {id}]
            /\ Jobs' = IF Due(Jobs[id], loop.next)
                       THEN Put(Jobs, id, [Jobs[id] EXCEPT !.Status = "running",
                                                           !.LastRun = loop.next])
                       ELSE Jobs
            /\ store' = UpdateJob(store, ~cancelled, id, Jobs'[id]).store
            /\ UNCHANGED <<tasks, submits>>
    /\ UNCHANGED <<now, nextId, cancelled, cronWakeup, registry, workers,
                   pool, call>>

\* one turn of the range loop of dispatchDueJobs up to the send of Submit
LoopVisit(id) ==
    /\ loop.pc = "dispatch"
    /\ id \in loop.todo
    /\ IF Due(Jobs[id], loop.next) /\ Accepts(pool, tasks)
       THEN /\ tasks' = Append(tasks, id)
            /\ submits' = [submits EXCEPT ![id] = @ + 1]
            /\ loop' = [loop EXCEPT !.pc = "submitted", !.cur = id]
       ELSE /\ loop' = [loop EXCEPT !.todo = @ \ {id}]
            /\ UNCHANGED <<tasks, submits>>
    /\ UNCHANGED <<now, Jobs, store, nextId, cancelled, cronWakeup, registry,
                   workers, pool, call>>

\* what dispatchDueJobs(at) writes into a job Submit has accepted
MarkRunning(job, at) == [job EXCEPT !.Status = "running", !.LastRun = at]

\* Submit returns true once it has had Metrics.mu; the job is marked running
LoopSubmitted ==
    /\ loop.pc = "submitted"
    /\ MetricsMuFree
    /\ LET job == MarkRunning(Jobs[loop.cur], loop.next)
       IN  /\ Jobs' = Put(Jobs, loop.cur, job)
           /\ store' = UpdateJob(store, ~cancelled, loop.cur, job).store
    /\ loop' = [loop EXCEPT !.pc = "dispatch", !.todo = @ \ {loop.cur}, !.cur = 0]
    /\ UNCHANGED <<now, nextId, cancelled, cronWakeup, registry, tasks,
                   workers, submits, pool, call>>

LoopDispatchDone ==
    /\ loop.pc = "dispatch"
    /\ loop.todo = {}
    /\ loop' = [loop EXCEPT !.pc = "compute"]
    /\ UNCHANGED <<now, Jobs, store, nextId, cancelled, cronWakeup, registry,
                   tasks, workers, submits, pool, call>>

\* ----------------------------------------------------------- worker pool
IdleWorker == [pc |-> "idle", task |-> 0, err |-> ""]

\* NewWorkerPool and Start: the flag down, the context live, the channel open,
\* no Stop under way
NewWorkerPool ==
    [isStopped |-> FALSE, done |-> FALSE, closed |-> FALSE, stop |-> "none",
     panic |-> ""]

\* no caller under observation
NoCall == [op |-> "none"]

WorkerTake(w) ==
    /\ workers[w].pc = "idle"
    /\ tasks # <<>>
    /\ workers' = [workers EXCEPT ![w] = [pc |-> "got", task |-> Head(tasks),
                                          err |-> ""]]
    /\ tasks' = Tail(tasks)
    /\ UNCHANGED <<now, Jobs, store, nextId, cancelled, cronWakeup, loop,
                   registry, submits, pool, call>>

\* the error of Execute for a job type without a handler
NoHandlerError(jobType) == "no handler registered for job type: " \o jobType

\* a worker that enters the handler whether the registry has one or not
WorkerBeginRunsAnyway(w) ==
    /\ workers[w].pc = "got"
    /\ MetricsMuFree
    /\ workers' = [workers EXCEPT ![w] = [@ EXCEPT !.pc = "exec"]]
    /\ UNCHANGED <<now, Jobs, store, nextId, cancelled, cronWakeup, loop,
                   registry, tasks, submits, pool, call>>

\* the worker counts itself active under Metrics.mu and enters Execute,
\* which fails at once when the job's type has no handler
WorkerBegin(w) ==
    /\ workers[w].pc = "got"
    /\ MetricsMuFree
    /\ workers' = [workers EXCEPT ![w] =
           IF registry[Jobs[workers[w].task].Type] = NoHandler
           THEN [@ EXCEPT !.pc = "ret",
                          !.err = NoHandlerError(Jobs[workers[w].task].Type)]
           ELSE [@ EXCEPT !.pc = "exec"]]
    /\ UNCHANGED <<now, Jobs, store, nextId, cancelled, cronWakeup, loop,
                   registry, tasks, submits, pool, call>>

\* the context a handler is invoked with is done: the worker calls
\* task.Execute(p.ctx) with the context of the pool, made by NewWorkerPool from
\* context.Background(), and Execute hands it on to the handler
HandlerCtxDone == pool.done

\* the handler returns nil (e = "") or an error
HandlerReturns(w, e) ==
    /\ workers[w].pc = "exec"
    /\ workers' = [workers EXCEPT ![w] = [@ EXCEPT !.pc = "ret", !.err = e]]
    /\ UNCHANGED <<now, Jobs, store, nextId, cancelled, cronWakeup, loop,
                   registry, tasks, submits, pool, call>>

WorkerLockMetrics(w) ==
    /\ workers[w].pc = "ret"
    /\ MetricsMuFree
    /\ workers' = [workers EXCEPT ![w] = [@ EXCEPT !.pc = "cb"]]
    /\ UNCHANGED <<now, Jobs, store, nextId, cancelled, cronWakeup, loop,
                   registry, tasks, submits, pool, call>>

\* OnSuccess leaving the retry count and the last error of the job alone
OnSuccessKeepsCount(job, at) ==
    [job EXCEPT !.Status = "completed",
                !.NextRun = nextRunTime(job.Schedule, at)]

\* JobTask.OnSuccess at instant at: what it writes into the job
OnSuccess(job, at) ==
    [job EXCEPT !.Status = "completed", !.LastError = "", !.RetryCount = 0,
                !.NextRun = nextRunTime(job.Schedule, at)]

\* the retry delay of OnFailure for the incremented retry count, in minutes
BackoffMinutes(retryCount) ==
    IF retryCount * retryCount > BackoffCapMinutes THEN BackoffCapMinutes
    ELSE retryCount * retryCount

\* OnFailure putting the job straight back in line, with no cap
OnFailureRetryNow(job, at, err) ==
    [job EXCEPT !.Status = "pending", !.LastError = err,
                !.RetryCount = job.RetryCount + 1, !.NextRun = at]

\* OnFailure starting the count over when the job had failed before
OnFailureStartsOver(job, at, err) ==
    [job EXCEPT !.Status = "failed", !.LastError = err,
                !.RetryCount = IF job.RetryCount > 0 THEN 0 ELSE 1,
                !.NextRun = at + TicksPerMinute]

\* JobTask.OnFailure at instant at: what it writes into the job
OnFailure(job, at, err) ==
    LET retryCount == job.RetryCount + 1
    IN  [job EXCEPT !.Status = "failed", !.LastError = err,
                    !.RetryCount = retryCount,
                    !.NextRun = IF retryCount >= RetryCap THEN ZeroTime
                                ELSE at + BackoffMinutes(retryCount) * TicksPerMinute]

\* what a callback leaves: the job as it made it, written through to the store
CallbackWrites(id, job) ==
    /\ Jobs' = Put(Jobs, id, job)
    /\ store' = UpdateJob(store, ~cancelled, id, job).store

\* the callback runs under JobMu, persists with the task's context (the
\* scheduler's) and ignores a failed write
WorkerCallback(w) ==
    /\ workers[w].pc = "cb"
    /\ JobMuFree
    /\ \E job \in {IF workers[w].err = ""
                    THEN OnSuccess(Jobs[workers[w].task], now)
                    ELSE OnFailure(Jobs[workers[w].task], now, workers[w].err)} :
           CallbackWrites(workers[w].task, job)
    /\ cronWakeup' = signalCronWakeup(cronWakeup)
    /\ workers' = [workers EXCEPT ![w] = IdleWorker]
    /\ UNCHANGED <<now, nextId, cancelled, loop, registry, tasks, submits,
                   pool, call>>

\* a worker goroutine that returns on Done wherever it is, a handler running
\* or a callback pending included
WorkerExitMidTask(w) ==
    /\ workers[w].pc \in {"idle", "got", "exec", "ret", "cb"}
    /\ pool.done \/ (pool.closed /\ tasks = <<>>)
    /\ workers' = [workers EXCEPT ![w] = [@ EXCEPT !.pc = "exited"]]
    /\ UNCHANGED <<now, Jobs, store, nextId, cancelled, cronWakeup, loop,
                   registry, tasks, submits, pool, call>>

\* the select of an idle worker takes its Done branch, or finds the channel
\* closed and drained: the goroutine returns
WorkerExit(w) ==
    /\ workers[w].pc = "idle"
    /\ pool.done \/ (pool.closed /\ tasks = <<>>)
    /\ workers' = [workers EXCEPT ![w] = [@ EXCEPT !.pc = "exited"]]
    /\ UNCHANGED <<now, Jobs, store, nextId, cancelled, cronWakeup, loop,
                   registry, tasks, submits, pool, call>>

\* WorkerPool.Stop, first statement: the flag goes up under p.mu
PoolStopFlag ==
    /\ pool.stop \in {"none", "returned"}
    /\ pool' = [pool EXCEPT !.isStopped = TRUE, !.stop = "flagged"]
    /\ UNCHANGED <<now, Jobs, store, nextId, cancelled, cronWakeup, loop,
                   registry, tasks, workers, submits, call>>

\* WorkerPool.Stop: p.cancel()
PoolStopCancel ==
    /\ pool.stop = "flagged"
    /\ pool' = [pool EXCEPT !.done = TRUE, !.stop = "cancelled"]
    /\ UNCHANGED <<now, Jobs, store, nextId, cancelled, cronWakeup, loop,
                   registry, tasks, workers, submits, call>>

\* WorkerPool.Stop: close(p.tasks), which panics on a channel already closed
PoolStopClose ==
    /\ pool.stop = "cancelled"
    /\ pool' = IF pool.closed
               THEN [pool EXCEPT !.stop = "panicked",
                                 !.panic = "close of closed channel"]
               ELSE [pool EXCEPT !.closed = TRUE, !.stop = "closed"]
    /\ UNCHANGED <<now, Jobs, store, nextId, cancelled, cronWakeup, loop,
                   registry, tasks, workers, submits, call>>

\* WorkerPool.Stop: p.wg.Wait() returns once every worker has returned
PoolStopReturn ==
    /\ pool.stop = "closed"
    /\ \A w \in Workers : workers[w].pc = "exited"
    /\ pool' = [pool EXCEPT !.stop = "returned"]
    /\ UNCHANGED <<now, Jobs, store, nextId, cancelled, cronWakeup, loop,
                   registry, tasks, workers, submits, call>>

PoolStop ==
    \/ PoolStopFlag
    \/ PoolStopCancel
    \/ PoolStopClose
    \/ PoolStopReturn

Tick ==
    /\ now < MaxTime
    /\ now' = now + 1
    /\ UNCHANGED <<Jobs, store, nextId, cancelled, cronWakeup, loop, registry,
                   tasks, workers, submits, pool, call>>

\* --------------------------------------------------------- specification
Init ==
    /\ now = 0
    /\ Jobs = <<>>
    /\ store = <<>>
    /\ nextId = 1
    /\ cancelled = FALSE
    /\ cronWakeup = 0
    /\ loop = [pc |-> "idle", next |-> 0, todo |-> {}, cur |-> 0]
    /\ registry = [t \in Types |-> NoHandler]
    /\ tasks = <<>>
    /\ workers = [w \in Workers |-> IdleWorker]
    /\ submits = [id \in JobIds |-> 0]
    /\ pool = NewWorkerPool
    /\ call = NoCall

\* the wake-loop, the workers and the clock: everything but the callers
Engine ==
    \/ \E t \in Types, h \in Handlers : RegisterHandler(t, h)
    \/ Start
    \/ LoopFindNext
    \/ LoopWakeup
    \/ LoopTimer
    \/ \E id \in JobIds : LoopVisit(id)
    \/ LoopSubmitted
    \/ LoopDispatchDone
    \/ \E w \in Workers : WorkerTake(w)
    \/ \E w \in Workers : WorkerBegin(w)
    \/ \E w \in Workers, e \in {"", "fail"} : HandlerReturns(w, e)
    \/ \E w \in Workers : WorkerLockMetrics(w)
    \/ \E w \in Workers : WorkerCallback(w)
    \/ Tick

Shutdown ==
    \/ Stop
    \/ LoopCancelled

\* one recurring job, rescheduled and stopped at will
Next ==
    \/ \E u \in Users, t \in Types, p \in Payloads :
           ScheduleJob(u, t, EveryMinute, p)
    \/ Engine
    \/ Shutdown

Spec == Init /\ [][Next]_vars

\* two keys, one of them with a schedule ParseCron rejects, on a running
\* scheduler
NextKeys ==
    \/ \E u \in Users, t \in Types, s \in {EveryMinute, StepFive} :
           ScheduleJob(u, t, s, "A")
    \/ Engine

SpecKeys == Init /\ [][NextKeys]_vars

\* one ScheduleJob call, then the scheduler and the pool left to themselves
NextOnce ==
    \/ \E u \in Users, t \in Types, p \in Payloads :
           Jobs = <<>> /\ ScheduleJob(u, t, EveryMinute, p)
    \/ Engine

SpecOnce == Init /\ [][NextOnce]_vars


\* the goroutines of the scheduler and of the pool are never held back for
\* ever, handlers return and the clock advances: the engine takes a step
\* whenever it has one to take
Fairness == WF_vars(Engine)

SpecOnceFair == Init /\ [][NextOnce]_vars /\ Fairness

\* callers with schedules ParseCron rejects only, before and after Stop: the
\* jobs they leave are due an hour ahead, so within the horizon the wake-loop
\* has nothing to dispatch and is left out
NextRejected ==
    \/ \E u \in Users, t \in Types, s \in {StepFive, ThreeFields},
          p \in Payloads : ScheduleJob(u, t, s, p)
    \/ Stop
    \/ Tick

SpecRejected == Init /\ [][NextRejected]_vars

\* a worker about to run the callback of a dispatched job, for every retry
\* count the job may have come to and every instant of the horizon
CallbackJob(p, retryCount, lastRun) ==
    [UserID |-> "u1", Type |-> "echo", Schedule |-> EveryMinute, Payload |-> p,
     Status |-> "running", RetryCount |-> retryCount,
     LastError |-> IF retryCount = 0 THEN "" ELSE "fail",
     NextRun |-> lastRun, LastRun |-> lastRun]

InitCallback ==
    /\ now \in 0..MaxTime
    /\ \E p \in Payloads, retryCount \in 0..MaxDrawnRetries, lastRun \in {0} :
           /\ Jobs = Put(<<>>, 1, CallbackJob(p, retryCount, lastRun))
           /\ store = Jobs
           /\ submits = [id \in JobIds |-> IF id = 1 THEN retryCount + 1 ELSE 0]
           /\ loop = [pc |-> "wait", next |-> findNextJobTime(Jobs, lastRun),
                      todo |-> {}, cur |-> 0]
    /\ nextId = 2
    /\ cancelled = FALSE
    /\ cronWakeup = 0
    /\ registry = [t \in Types |-> "h1"]
    /\ tasks = <<>>
    /\ \E e \in {"", "fail"} :
           workers = [w \in Workers |-> [pc |-> "cb", task |-> 1, err |-> e]]
    /\ pool = NewWorkerPool
    /\ call = NoCall

NextCallback ==
    \/ \E w \in Workers : WorkerCallback(w)
    \/ Tick

SpecCallback == InitCallback /\ [][NextCallback]_vars

\* the schedules of the rows the store holds, in the order of their ids
StoredSchedules == <<EveryMinute, StepFive, ThreeFields>>

\* a worker about to run the callback of a dispatched job whose schedule
\* ParseCron accepts or rejects, on a scheduler that is stopped or not, with
\* the wake-up channel empty or full
InitFinish ==
    /\ now \in 0..MaxTime
    /\ \E p \in Payloads, retryCount \in 0..1, s \in {EveryMinute, StepFive} :
           /\ Jobs = Put(<<>>, 1, [CallbackJob(p, retryCount, 0)
                                      EXCEPT !.Schedule = s])
           /\ store = Jobs
           /\ submits = [id \in JobIds |-> IF id = 1 THEN retryCount + 1 ELSE 0]
           /\ loop = [pc |-> "wait", next |-> findNextJobTime(Jobs, 0),
                      todo |-> {}, cur |-> 0]
    /\ nextId = 2
    /\ cancelled = FALSE
    /\ cronWakeup \in 0..WakeupCap
    /\ registry = [t \in Types |-> "h1"]
    /\ tasks = <<>>
    /\ \E e \in {"", "fail"} :
           workers = [w \in Workers |-> [pc |-> "cb", task |-> 1, err |-> e]]
    /\ pool = NewWorkerPool
    /\ call = NoCall

NextFinish ==
    \/ \E w \in Workers : WorkerCallback(w)
    \/ Stop
    \/ Tick

SpecFinish == InitFinish /\ [][NextFinish]_vars

\* the texts a field of a cron expression is given as
FieldTexts ==
    {<<"*">>, <<"0">>, <<"1">>, <<"2">>, <<"5">>, <<"7">>, <<"1", "3">>,
     <<"2", "4">>, <<"3", "2">>, <<"5", "9">>, <<"6", "0">>,
     <<"1", ",", "1", "5">>, <<"1", "-", "5">>, <<"5", "-", "1">>,
     <<"1", "-", "2", "-", "3">>, <<"*", "/", "5">>, <<"+", "5">>,
     <<"1", "-", "3", ",", "5">>, <<"1", ",", ",", "2">>, <<"-", "5">>,
     <<"a">>, <<>>}

\* the expression whose i-th field is f, every other field "*"
OneField(f, i) ==
    LET field(j) == IF j = i THEN f ELSE <<"*">>
    IN  field(1) \o <<" ">> \o field(2) \o <<" ">> \o field(3) \o <<" ">>
        \o field(4) \o <<" ">> \o field(5)

\* "0 0 <day> <month> *": midnight of one day of one month
Midnight(day, month) ==
    <<"0", " ", "0", " ">> \o day \o <<" ">> \o month \o <<" ", "*">>

\* expressions of five fields, and of three, four and six, and the midnights
\* of 29, 30 and 31 February and of 31 April
CronExprs ==
    {OneField(f, i) : f \in FieldTexts, i \in 1..5}
    \cup {ThreeFields, ThreeFields \o <<" ", "*">>,
          EveryMinute \o <<" ", "*">>}
    \cup {Midnight(<<"2", "9">>, <<"2">>), Midnight(<<"3", "0">>, <<"2">>),
          Midnight(<<"3", "1">>, <<"2">>), Midnight(<<"3", "1">>, <<"4">>)}

\* the instants Next is called with: up to MaxTime ticks after the start of
\* the epoch, and after two minutes before the end of its first hour, of its
\* first day, of January, of the 29th of February and of the year
Instants ==
    {TicksPerMinute * m + d :
        m \in {0, 58, 23 * 60 + 58, 30 * 1440 + 23 * 60 + 58,
               59 * 1440 + 23 * 60 + 58, 365 * 1440 + 23 * 60 + 58},
        d \in 0..MaxTime}

\* a caller holding an expression calls ParseCron on it, then Next on the
\* schedule it got, then Next again on the instant Next returned
InitCron ==
    /\ now = 0
    /\ Jobs = <<>>
    /\ store = <<>>
    /\ nextId = 1
    /\ cancelled = FALSE
    /\ cronWakeup = 0
    /\ loop = [pc |-> "idle", next |-> 0, todo |-> {}, cur |-> 0]
    /\ registry = [t \in Types |-> NoHandler]
    /\ tasks = <<>>
    /\ workers = [w \in Workers |-> IdleWorker]
    /\ submits = [id \in JobIds |-> 0]
    /\ pool = NewWorkerPool
    /\ \E expr \in CronExprs :
           call = [op |-> "expr", expr |-> expr, cron |-> [ok |-> FALSE],
                   from |-> 0, at |-> 0, ret |-> 0]

CallParseCron ==
    /\ call.op = "expr"
    /\ call' = [call EXCEPT !.op = "ParseCron", !.cron = ParseCron(call.expr)]
    /\ UNCHANGED <<now, Jobs, store, nextId, cancelled, cronWakeup, loop,
                   registry, tasks, workers, submits, pool>>

CallNext(after) ==
    /\ call.op = "ParseCron"
    /\ call.cron.ok
    /\ call' = [call EXCEPT !.op = "Next", !.from = after, !.at = after,
                            !.ret = CronNext(call.cron, after)]
    /\ UNCHANGED <<now, Jobs, store, nextId, cancelled, cronWakeup, loop,
                   registry, tasks, workers, submits, pool>>

\* t <- Next(s, t), for as long as t is within the horizon
CallNextAgain ==
    /\ call.op = "Next"
    /\ call.ret # NeverReturns /\ call.ret <= call.from + MaxTime
    /\ call' = [call EXCEPT !.at = call.ret,
                            !.ret = CronNext(call.cron, call.ret)]
    /\ UNCHANGED <<now, Jobs, store, nextId, cancelled, cronWakeup, loop,
                   registry, tasks, workers, submits, pool>>

NextCron ==
    \/ CallParseCron
    \/ \E after \in Instants : CallNext(after)
    \/ CallNextAgain

SpecCron == InitCron /\ [][NextCron]_vars

\* a job as loadJobsFromDB finds it: pending, never run, due at instant 0
StoredJob(s) ==
    [UserID |-> "u1", Type |-> "echo", Schedule |-> s, Payload |-> "A",
     Status |-> "pending", RetryCount |-> 0, LastError |-> "",
     NextRun |-> 0, LastRun |-> NilTime]

\* a scheduler built on a store of three due jobs, its handler registered, and
\* a pool of one worker
InitBurst ==
    /\ now = 0
    /\ store = [id \in JobIds |-> StoredJob(StoredSchedules[id])]
    /\ Jobs = store
    /\ nextId = Cardinality(JobIds) + 1
    /\ cancelled = FALSE
    /\ cronWakeup = 0
    /\ loop = [pc |-> "idle", next |-> 0, todo |-> {}, cur |-> 0]
    /\ registry = [t \in Types |-> "h1"]
    /\ tasks = <<>>
    /\ workers = [w \in Workers |-> IdleWorker]
    /\ submits = [id \in JobIds |-> 0]
    /\ pool = NewWorkerPool
    /\ call = NoCall

\* the wake-loop and the pool at work on them while the pool is stopped, once
\* or twice
NextBurst ==
    \/ Start
    \/ LoopFindNext
    \/ LoopWakeup
    \/ LoopTimer
    \/ \E id \in JobIds : LoopVisit(id)
    \/ LoopSubmitted
    \/ LoopDispatchDone
    \/ \E w \in Workers : WorkerTake(w)
    \/ \E w \in Workers : WorkerBegin(w)
    \/ \E w \in Workers, e \in {"", "fail"} : HandlerReturns(w, e)
    \/ \E w \in Workers : WorkerLockMetrics(w)
    \/ \E w \in Workers : WorkerCallback(w)
    \/ \E w \in Workers : WorkerExit(w)
    \/ PoolStop

SpecBurst == InitBurst /\ [][NextBurst]_vars

\* the program is started again on the store it left, after Scheduler.Stop has
\* returned: a new pool, NewScheduler with a new context, an empty registry
\* and the working set loaded from the store
Restart ==
    /\ cancelled
    /\ loop.pc \in {"idle", "done"}
    /\ Jobs' = loadJobsFromDB(store)
    /\ cancelled' = FALSE
    /\ cronWakeup' = 0
    /\ loop' = [pc |-> "idle", next |-> 0, todo |-> {}, cur |-> 0]
    /\ registry' = [t \in Types |-> NoHandler]
    /\ tasks' = <<>>
    /\ workers' = [w \in Workers |-> IdleWorker]
    /\ submits' = [id \in JobIds |-> 0]
    /\ pool' = NewWorkerPool
    /\ UNCHANGED <<now, store, nextId, call>>

\* the steps of the wake-loop goroutine
LoopStep ==
    \/ LoopFindNext
    \/ LoopWakeup
    \/ LoopTimer
    \/ \E id \in JobIds : LoopVisit(id)
    \/ LoopSubmitted
    \/ LoopDispatchDone

\* the steps of worker goroutine w of a running pool, its handlers returning
WorkerStep(w) ==
    \/ WorkerTake(w)
    \/ WorkerBegin(w)
    \/ \E e \in {"", "fail"} : HandlerReturns(w, e)
    \/ WorkerLockMetrics(w)
    \/ WorkerCallback(w)

\* a started scheduler and a running pool left to themselves
NextRunning ==
    \/ Start
    \/ LoopStep
    \/ \E w \in Workers : WorkerStep(w)

\* a scheduler on a store of three due jobs, run, stopped and started again
NextRestart ==
    \/ \E t \in Types, h \in Handlers : RegisterHandler(t, h)
    \/ NextRunning
    \/ Shutdown
    \/ Restart

SpecRestart == InitBurst /\ [][NextRestart]_vars

\* a worker inside the handler of a dispatched job when Scheduler.Stop is
\* called: the handler returns only once the scheduler's context is cancelled
InitLate ==
    /\ now \in 0..MaxTime
    /\ \E p \in Payloads, retryCount \in 0..1, s \in {EveryMinute, StepFive} :
           /\ Jobs = Put(<<>>, 1, [CallbackJob(p, retryCount, 0)
                                      EXCEPT !.Schedule = s])
           /\ store = Jobs
           /\ submits = [id \in JobIds |-> IF id = 1 THEN retryCount + 1 ELSE 0]
           /\ loop = [pc |-> "wait", next |-> findNextJobTime(Jobs, 0),
                      todo |-> {}, cur |-> 0]
    /\ nextId = 2
    /\ cancelled = FALSE
    /\ cronWakeup = 0
    /\ registry = [t \in Types |-> "h1"]
    /\ tasks = <<>>
    /\ workers = [w \in Workers |-> [pc |-> "exec", task |-> 1, err |-> ""]]
    /\ pool = NewWorkerPool
    /\ call = NoCall

\* the handler returns when the scheduler has already been stopped
LateReturn(w, e) == cancelled /\ HandlerReturns(w, e)

NextLate ==
    \/ Stop
    \/ \E w \in Workers, e \in {"", "fail"} : LateReturn(w, e)
    \/ \E w \in Workers : WorkerLockMetrics(w)
    \/ \E w \in Workers : WorkerCallback(w)
    \/ Tick

SpecLate == InitLate /\ [][NextLate]_vars

\* NewScheduler on the store a process left when it stopped or crashed while
\* job 1 was running: its row says running, with the last_run of the dispatch;
\* job 2 is pending and due, job 3 has completed or failed
InitCrash ==
    /\ now = 0
    /\ \E status \in {"completed", "failed"}, p \in Payloads :
           store = [id \in JobIds |->
                      IF id = 1
                      THEN [StoredJob(StoredSchedules[id])
                              EXCEPT !.Status = "running", !.LastRun = 0,
                                     !.Payload = p]
                      ELSE IF id = 2 THEN StoredJob(StoredSchedules[id])
                      ELSE [StoredJob(StoredSchedules[id])
                              EXCEPT !.Status = status, !.LastRun = 0]]
    /\ Jobs = loadJobsFromDB(store)
    /\ nextId = Cardinality(JobIds) + 1
    /\ cancelled = FALSE
    /\ cronWakeup = 0
    /\ loop = [pc |-> "idle", next |-> 0, todo |-> {}, cur |-> 0]
    /\ registry = [t \in Types |-> "h1"]
    /\ tasks = <<>>
    /\ workers = [w \in Workers |-> IdleWorker]
    /\ submits = [id \in JobIds |-> 0]
    /\ pool = NewWorkerPool
    /\ call = NoCall

SpecCrashFair ==
    /\ InitCrash
    /\ [][NextRunning]_vars
    /\ WF_vars(Start)
    /\ WF_vars(LoopStep)
    /\ \A w \in Workers : WF_vars(WorkerStep(w))

\* every goroutine that can take a step eventually takes one
SpecRunningFair ==
    /\ InitBurst
    /\ [][NextRunning]_vars
    /\ WF_vars(Start)
    /\ WF_vars(LoopStep)
    /\ \A w \in Workers : WF_vars(WorkerStep(w))

\* a started scheduler and a running pool, with Scheduler.Stop called at any
\* moment
NextShutdown ==
    \/ NextRunning
    \/ Shutdown

\* every goroutine that can take a step comes to take one, and a select whose
\* Done case is ready again and again comes to take it: Go picks among the
\* ready cases of a select at random
SpecShutdownFair ==
    /\ InitBurst
    /\ [][NextShutdown]_vars
    /\ WF_vars(Start)
    /\ WF_vars(LoopStep)
    /\ SF_vars(LoopCancelled)
    /\ \A w \in Workers : WF_vars(WorkerStep(w))

\* ------------------------------------------------------ handler registry
\* the job types callers of the registry name, the empty one among them
RegistryKeys == {"", "echo", "digest"}

\* RegisterHandler storing whatever it is given
RegisterUnchecked(reg, jobType, handler) == [reg EXCEPT ![jobType] = handler]

\* JobHandlerRegistry.RegisterHandler on the map reg, a key without an entry
\* holding the nil handler
RegisterOn(reg, jobType, handler) ==
    IF jobType = "" \/ handler = NoHandler THEN reg
    ELSE [reg EXCEPT ![jobType] = handler]

\* JobHandlerRegistry.UnregisterHandler
UnregisterOn(reg, jobType) == [reg EXCEPT ![jobType] = NoHandler]

\* JobHandlerRegistry.GetHandler
GetHandler(reg, jobType) == reg[jobType]

\* a new registry and no call made yet; call.log is the calls made so far
InitRegistry ==
    /\ now = 0
    /\ Jobs = <<>>
    /\ store = <<>>
    /\ nextId = 1
    /\ cancelled = FALSE
    /\ cronWakeup = 0
    /\ loop = [pc |-> "idle", next |-> 0, todo |-> {}, cur |-> 0]
    /\ registry = [t \in RegistryKeys |-> NoHandler]
    /\ tasks = <<>>
    /\ workers = [w \in Workers |-> IdleWorker]
    /\ submits = [id \in JobIds |-> 0]
    /\ pool = NewWorkerPool
    /\ call = [op |-> "registry", log |-> <<>>, type |-> "", ret |-> NoHandler]

CallRegister(t, h) ==
    /\ Len(call.log) < MaxCalls
    /\ registry' = RegisterOn(registry, t, h)
    /\ call' = [call EXCEPT !.log = Append(@, [op |-> "register", type |-> t,
                                               handler |-> h])]
    /\ UNCHANGED <<now, Jobs, store, nextId, cancelled, cronWakeup, loop,
                   tasks, workers, submits, pool>>

CallUnregister(t) ==
    /\ Len(call.log) < MaxCalls
    /\ registry' = UnregisterOn(registry, t)
    /\ call' = [call EXCEPT !.log = Append(@, [op |-> "unregister", type |-> t,
                                               handler |-> NoHandler])]
    /\ UNCHANGED <<now, Jobs, store, nextId, cancelled, cronWakeup, loop,
                   tasks, workers, submits, pool>>

CallGet(t) ==
    /\ call' = [call EXCEPT !.type = t, !.ret = GetHandler(registry, t)]
    /\ UNCHANGED <<now, Jobs, store, nextId, cancelled, cronWakeup, loop,
                   registry, tasks, workers, submits, pool>>

NextRegistry ==
    \/ \E t \in RegistryKeys, h \in {NoHandler, "h1", "h2"} : CallRegister(t, h)
    \/ \E t \in RegistryKeys : CallUnregister(t)
    \/ \E t \in RegistryKeys : CallGet(t)

SpecRegistry == InitRegistry /\ [][NextRegistry]_vars

\* ---------------------------------------------------------- the job store
\* SQLiteJobStore.DeleteJob
DeleteJob(st, live, id) ==
    IF ~live \/ id \notin DOMAIN st
    THEN [ok |-> FALSE, store |-> st]
    ELSE [ok |-> TRUE, store |-> [x \in DOMAIN st \ {id} |-> st[x]]]

\* SQLiteJobStore.GetJob: the row of id, or an error
GetJob(st, live, id) ==
    IF ~live \/ id \notin DOMAIN st THEN [ok |-> FALSE, job |-> NoCall]
    ELSE [ok |-> TRUE, job |-> st[id]]

\* the error a store call on id returns when it fails
StoreError(st, live, id) ==
    IF ~live THEN "context canceled"
    ELSE IF id \notin DOMAIN st THEN "job not found"
    ELSE "constraint failed"

\* the jobs callers of the store hand it: one job and the three that differ
\* from it in one component of the key, each with either payload
StoreJobs ==
    {[StoredJob(k[3]) EXCEPT !.UserID = k[1], !.Type = k[2], !.Payload = p] :
        k \in {<<"u1", "echo", EveryMinute>>, <<"u2", "echo", EveryMinute>>,
               <<"u1", "digest", EveryMinute>>, <<"u1", "echo", StepFive>>},
        p \in Payloads}

\* an initialized, empty store; call is the last call made and what it returned
InitStore ==
    /\ now = 0
    /\ Jobs = <<>>
    /\ store = <<>>
    /\ nextId = 1
    /\ cancelled = FALSE
    /\ cronWakeup = 0
    /\ loop = [pc |-> "idle", next |-> 0, todo |-> {}, cur |-> 0]
    /\ registry = [t \in Types |-> NoHandler]
    /\ tasks = <<>>
    /\ workers = [w \in Workers |-> IdleWorker]
    /\ submits = [id \in JobIds |-> 0]
    /\ pool = NewWorkerPool
    /\ call = NoCall

\* CreateJob of a job with a new id, as uuid.New gives it
CallCreateJob(job) ==
    /\ nextId <= MaxRows
    /\ \E r \in {CreateJob(store, TRUE, nextId, job)} :
           /\ store' = r.store
           /\ call' = [op |-> "create", id |-> nextId, job |-> job, ok |-> r.ok,
                       err |-> IF r.ok THEN "" ELSE StoreError(store, TRUE, nextId)]
    /\ nextId' = nextId + 1
    /\ UNCHANGED <<now, Jobs, cancelled, cronWakeup, loop, registry, tasks,
                   workers, submits, pool>>

CallUpdateJob(id, job) ==
    /\ \E r \in {UpdateJob(store, TRUE, id, job)} :
           /\ store' = r.store
           /\ call' = [op |-> "update", id |-> id, job |-> job, ok |-> r.ok,
                       err |-> IF r.ok THEN "" ELSE StoreError(store, TRUE, id)]
    /\ UNCHANGED <<now, Jobs, nextId, cancelled, cronWakeup, loop, registry,
                   tasks, workers, submits, pool>>

CallDeleteJob(id) ==
    /\ \E r \in {DeleteJob(store, TRUE, id)} :
           /\ store' = r.store
           /\ call' = [op |-> "delete", id |-> id, job |-> NoCall, ok |-> r.ok,
                       err |-> IF r.ok THEN "" ELSE StoreError(store, TRUE, id)]
    /\ UNCHANGED <<now, Jobs, nextId, cancelled, cronWakeup, loop, registry,
                   tasks, workers, submits, pool>>

CallGetJob(id) ==
    /\ \E r \in {GetJob(store, TRUE, id)} :
           call' = [op |-> "get", id |-> id, job |-> r.job, ok |-> r.ok,
                    err |-> IF r.ok THEN "" ELSE StoreError(store, TRUE, id)]
    /\ UNCHANGED <<now, Jobs, store, nextId, cancelled, cronWakeup, loop,
                   registry, tasks, workers, submits, pool>>

NextStore ==
    \/ \E job \in StoreJobs : CallCreateJob(job)
    \/ \E id \in 1..MaxRows, job \in StoreJobs : CallUpdateJob(id, job)
    \/ \E id \in 1..MaxRows : CallDeleteJob(id)
    \/ \E id \in 1..MaxRows : CallGetJob(id)

SpecStore == InitStore /\ [][NextStore]_vars

\* ------------------------------------------------------ Scheduler.ListJobs
\* the filter Scheduler.ListJobs hands the store for the options opts
ListFilter(opts) ==
    [UserID |-> opts.UserID, Type |-> opts.Type, Status |-> opts.Status,
     NextRun |-> IF opts.Before # ZeroTime THEN opts.Before ELSE ZeroTime]

\* the results SQLiteJobStore.ListJobs can give: the ids of the rows the
\* filter keeps, ORDER BY next_run ASC, rows of equal next_run in any order
StoreListOrders(st, filter) ==
    {seq \in [1..Cardinality(StoreListJobs(st, filter))
                -> StoreListJobs(st, filter)] :
        /\ \A i, j \in DOMAIN seq : i # j => seq[i] # seq[j]
        /\ \A i, j \in DOMAIN seq : i < j => st[seq[i]].NextRun <= st[seq[j]].NextRun}

\* the loop of Scheduler.ListJobs that skips the jobs before opts.After
AfterFilter(st, seq, opts) ==
    SelectSeq(seq, LAMBDA id :
                       ~(opts.After # ZeroTime /\ st[id].NextRun < opts.After))

\* the limit of Scheduler.ListJobs
Truncate(seq, limit) ==
    IF limit > 0 /\ Len(seq) > limit THEN SubSeq(seq, 1, limit) ELSE seq

\* the results Scheduler.ListJobs(opts) can give on the store st
SchedulerListJobs(st, opts) ==
    {Truncate(AfterFilter(st, seq, opts), opts.Limit) :
        seq \in StoreListOrders(st, ListFilter(opts))}

\* the options callers of ListJobs give: a zero field means no filter
ListOptions ==
    [UserID : {"", "u1"}, Type : {"", "echo"}, Status : {"", "pending"},
     Before : {ZeroTime} \cup 0..MaxTime, After : {ZeroTime} \cup 0..MaxTime,
     Limit : 0..2]

\* a scheduler on a store of three rows of two users, pending or failed, due
\* at any instants of the horizon
InitList ==
    /\ now = 0
    /\ \E at \in [JobIds -> 0..MaxTime] :
           store = [id \in JobIds |->
                      [StoredJob(StoredSchedules[id])
                         EXCEPT !.NextRun = at[id],
                                !.UserID = IF id = 3 THEN "u2" ELSE "u1",
                                !.Status = IF id = 2 THEN "failed" ELSE "pending"]]
    /\ Jobs = loadJobsFromDB(store)
    /\ nextId = Cardinality(JobIds) + 1
    /\ cancelled = FALSE
    /\ cronWakeup = 0
    /\ loop = [pc |-> "idle", next |-> 0, todo |-> {}, cur |-> 0]
    /\ registry = [t \in Types |-> NoHandler]
    /\ tasks = <<>>
    /\ workers = [w \in Workers |-> IdleWorker]
    /\ submits = [id \in JobIds |-> 0]
    /\ pool = NewWorkerPool
    /\ call = NoCall

\* Scheduler.ListJobs(ctx, opts) with a live context, the one call observed
CallListJobs(opts) ==
    /\ call = NoCall
    /\ \E ret \in SchedulerListJobs(store, opts) :
           call' = [op |-> "list", opts |-> opts, ret |-> ret]
    /\ UNCHANGED <<now, Jobs, store, nextId, cancelled, cronWakeup, loop,
                   registry, tasks, workers, submits, pool>>

NextList == \E opts \in ListOptions : CallListJobs(opts)

SpecList == InitList /\ [][NextList]_vars

\* ------------------------------------------------- the retrying worker pool
\* a worker of the retrying pool has received a task whose Process fails its
\* first failCount calls and calls processWithRetry(task, 0); call holds the
\* task, the attempt counter, the dead-letter flag and where the worker is
InitRetry ==
    /\ now = 0
    /\ Jobs = <<>>
    /\ store = <<>>
    /\ nextId = 1
    /\ cancelled = FALSE
    /\ cronWakeup = 0
    /\ loop = [pc |-> "idle", next |-> 0, todo |-> {}, cur |-> 0]
    /\ registry = [t \in Types |-> NoHandler]
    /\ tasks = <<>>
    /\ workers = [w \in Workers |-> IdleWorker]
    /\ submits = [id \in JobIds |-> 0]
    /\ pool = NewWorkerPool
    /\ \E failCount \in 0..(PoolMaxRetries + 2) :
           call = [op |-> "retry", failCount |-> failCount, called |-> 0,
                   attempt |-> 0, dead |-> FALSE, pc |-> "loop"]

\* a retry loop that allows one attempt more
RetryProcessOneMore ==
    /\ call.op = "retry" /\ call.pc = "loop"
    /\ call.attempt <= PoolMaxRetries
    /\ ~pool.done
    /\ call' = IF call.called + 1 <= call.failCount
               THEN [call EXCEPT !.called = @ + 1, !.attempt = @ + 1]
               ELSE [call EXCEPT !.called = @ + 1, !.pc = "returned"]
    /\ UNCHANGED <<now, Jobs, store, nextId, cancelled, cronWakeup, loop,
                   registry, tasks, workers, submits, pool>>

\* one turn of the loop of processWithRetry on the default branch of its
\* select: Process is called, an error counts an attempt, nil returns
RetryProcess ==
    /\ call.op = "retry" /\ call.pc = "loop"
    /\ call.attempt < PoolMaxRetries
    /\ ~pool.done
    /\ call' = IF call.called + 1 <= call.failCount
               THEN [call EXCEPT !.called = @ + 1, !.attempt = @ + 1]
               ELSE [call EXCEPT !.called = @ + 1, !.pc = "returned"]
    /\ UNCHANGED <<now, Jobs, store, nextId, cancelled, cronWakeup, loop,
                   registry, tasks, workers, submits, pool>>

\* the select finds the pool's context done: the task is given up
RetryCancelled ==
    /\ call.op = "retry" /\ call.pc = "loop"
    /\ call.attempt < PoolMaxRetries
    /\ pool.done
    /\ call' = [call EXCEPT !.pc = "returned"]
    /\ UNCHANGED <<now, Jobs, store, nextId, cancelled, cronWakeup, loop,
                   registry, tasks, workers, submits, pool>>

\* the loop has run out of attempts: the task goes to the dead letters
RetryDeadLetter ==
    /\ call.op = "retry" /\ call.pc = "loop"
    /\ ~(call.attempt < PoolMaxRetries)
    /\ call' = [call EXCEPT !.dead = TRUE, !.pc = "returned"]
    /\ UNCHANGED <<now, Jobs, store, nextId, cancelled, cronWakeup, loop,
                   registry, tasks, workers, submits, pool>>

\* Stop of the retrying pool: p.cancel() and close(p.tasks)
RetryStop ==
    /\ call.op = "retry"
    /\ ~pool.done
    /\ pool' = [pool EXCEPT !.done = TRUE, !.closed = TRUE]
    /\ UNCHANGED <<now, Jobs, store, nextId, cancelled, cronWakeup, loop,
                   registry, tasks, workers, submits, call>>

NextRetry ==
    \/ RetryProcess
    \/ RetryCancelled
    \/ RetryDeadLetter
    \/ RetryStop

SpecRetry == InitRetry /\ [][NextRetry]_vars

\* ------------------------------------------------- Submit racing with Stop
\* a caller about to call Submit with the task of job 1 on a running pool;
\* call is where the caller is in Submit and what Submit returned
InitRace ==
    /\ now = 0
    /\ store = [id \in JobIds |-> StoredJob(StoredSchedules[id])]
    /\ Jobs = store
    /\ nextId = Cardinality(JobIds) + 1
    /\ cancelled = FALSE
    /\ cronWakeup = 0
    /\ loop = [pc |-> "idle", next |-> 0, todo |-> {}, cur |-> 0]
    /\ registry = [t \in Types |-> "h1"]
    /\ tasks \in {<<>>, <<2>>, <<2, 3>>}
    /\ workers = [w \in Workers |-> IdleWorker]
    /\ submits = [id \in JobIds |-> 0]
    /\ pool = NewWorkerPool
    /\ call = [op |-> "submit", pc |-> "check", task |-> 1, ret |-> FALSE,
               panic |-> ""]

\* Submit reads isStopped under p.mu and lets the lock go
SubmitCheck ==
    /\ call.op = "submit" /\ call.pc = "check"
    /\ call' = IF pool.isStopped THEN [call EXCEPT !.pc = "returned"]
               ELSE [call EXCEPT !.pc = "send"]
    /\ UNCHANGED <<now, Jobs, store, nextId, cancelled, cronWakeup, loop,
                   registry, tasks, workers, submits, pool>>

\* the select of Submit: a send on a closed channel panics, a send on a full
\* one is not ready and the default branch returns false
SubmitSend ==
    /\ call.op = "submit" /\ call.pc = "send"
    /\ IF pool.closed
       THEN /\ call' = [call EXCEPT !.pc = "panicked",
                                    !.panic = "send on closed channel"]
            /\ UNCHANGED tasks
       ELSE IF Len(tasks) < QueueCap
       THEN /\ tasks' = Append(tasks, call.task)
            /\ call' = [call EXCEPT !.pc = "count"]
       ELSE /\ call' = [call EXCEPT !.pc = "returned"]
            /\ UNCHANGED tasks
    /\ UNCHANGED <<now, Jobs, store, nextId, cancelled, cronWakeup, loop,
                   registry, workers, submits, pool>>

\* after its send Submit counts the task under Metrics.mu and returns true
SubmitCount ==
    /\ call.op = "submit" /\ call.pc = "count"
    /\ MetricsMuFree
    /\ call' = [call EXCEPT !.pc = "returned", !.ret = TRUE]
    /\ UNCHANGED <<now, Jobs, store, nextId, cancelled, cronWakeup, loop,
                   registry, tasks, workers, submits, pool>>

\* one Submit, one Stop and the worker, interleaved at will
NextRace ==
    \/ SubmitCheck
    \/ SubmitSend
    \/ SubmitCount
    \/ PoolStop
    \/ \E w \in Workers : WorkerStep(w)
    \/ \E w \in Workers : WorkerExit(w)

SpecRace == InitRace /\ [][NextRace]_vars

\* ------------------------------------------------- the token-refresh handler
\* a scheduler built on a store of three due token_refresh jobs, with
\* TokenRefreshService.HandleTokenRefresh registered for them
InitRefresh ==
    /\ now = 0
    /\ store = [id \in JobIds |->
                   [StoredJob(StoredSchedules[id]) EXCEPT !.Type = "token_refresh"]]
    /\ Jobs = store
    /\ nextId = Cardinality(JobIds) + 1
    /\ cancelled = FALSE
    /\ cronWakeup = 0
    /\ loop = [pc |-> "idle", next |-> 0, todo |-> {}, cur |-> 0]
    /\ registry = [t \in {"token_refresh"} |-> "HandleTokenRefresh"]
    /\ tasks = <<>>
    /\ workers = [w \in Workers |-> IdleWorker]
    /\ submits = [id \in JobIds |-> 0]
    /\ pool = NewWorkerPool
    /\ call = NoCall

\* what HandleTokenRefresh writes through the *Job it was given before it
\* returns nil
RefreshedJob(job, at) ==
    [job EXCEPT !.Status = "completed", !.LastError = "", !.RetryCount = 0,
                !.NextRun = at + RefreshMinutes * TicksPerMinute]

\* HandleTokenRefresh on the worker's goroutine, with no lock taken: it
\* returns an error (e # "") when the payload, the token or the refresh
\* fails, and otherwise writes the job and returns nil
HandleTokenRefresh(w, e) ==
    /\ workers[w].pc = "exec"
    /\ registry[Jobs[workers[w].task].Type] = "HandleTokenRefresh"
    /\ workers' = [workers EXCEPT ![w] = [@ EXCEPT !.pc = "ret", !.err = e]]
    /\ Jobs' = IF e # "" THEN Jobs
               ELSE [Jobs EXCEPT ![workers[w].task] = RefreshedJob(@, now)]
    /\ UNCHANGED <<now, store, nextId, cancelled, cronWakeup, loop,
                   registry, tasks, submits, pool, call>>

NextRefresh ==
    \/ Start
    \/ LoopStep
    \/ \E w \in Workers : WorkerTake(w)
    \/ \E w \in Workers : WorkerBegin(w)
    \/ \E w \in Workers, e \in {"", "fail"} : HandleTokenRefresh(w, e)
    \/ \E w \in Workers : WorkerLockMetrics(w)
    \/ \E w \in Workers : WorkerCallback(w)
    \/ Tick

SpecRefresh == InitRefresh /\ [][NextRefresh]_vars

\* ------------------------------------------------------------- properties
\* the JobTasks of job id that the pool holds: queued, or taken by a worker
\* that has not yet finished with it
InFlight(id) ==
    Cardinality({i \in 1..Len(tasks) : tasks[i] = id})
    + Cardinality({w \in Workers : workers[w].pc # "idle" /\ workers[w].task = id})

\* C1: for every job id the pool holds at most one task referring to it,
\* queued or executing, whatever ScheduleJob, the wake-loop and the workers do.
C1_AtMostOneInFlight == \A id \in JobIds : InFlight(id) <= 1

UniqueKeys(f) ==
    \A a \in DOMAIN f : \A b \in DOMAIN f : a # b => KeyOf(f[a]) # KeyOf(f[b])

\* C2: no two jobs of the working set, and no two rows of the store, share a
\* (user_id, type, schedule) triple.
C2_DedupUnique == UniqueKeys(Jobs) /\ UniqueKeys(store)

\* two jobs with different keys, one of them rescheduled after it had run
C2_Witness ==
    /\ Cardinality(DOMAIN Jobs) = 2
    /\ Cardinality(DOMAIN store) = 2
    /\ \E id \in DOMAIN Jobs :
           Jobs[id].Status = "pending" /\ Jobs[id].LastRun # NilTime

\* C3 (as stated): once a job has completed and its recomputed next_run has
\* arrived, a running scheduler and pool bring it back to pending and dispatch
\* it again, with no further ScheduleJob call.
C3_CompletedRunsAgain ==
    \A id \in JobIds :
        (id \in DOMAIN Jobs /\ Jobs[id].Status = "completed"
            /\ Jobs[id].NextRun <= now)
        ~> (id \in DOMAIN Jobs /\ Jobs[id].Status \in {"pending", "running"})

\* C4 (as stated): once a job has failed below the retry cap and its backoff
\* next_run has arrived, a running scheduler and pool dispatch it again, with
\* no further ScheduleJob call.
C4_FailedRunsAgain ==
    \A id \in JobIds :
        (id \in DOMAIN Jobs /\ Jobs[id].Status = "failed"
            /\ Jobs[id].RetryCount < RetryCap
            /\ Jobs[id].NextRun # ZeroTime /\ Jobs[id].NextRun <= now)
        ~> (id \in DOMAIN Jobs /\ Jobs[id].Status \in {"pending", "running"})

\* C5 (as stated): a failure callback leaves the job dead with the zero
\* next_run exactly when the incremented retry_count is at least MaxRetries,
\* and otherwise failed with a next_run after the present instant.
C5_DeadExactlyAtCap ==
    [][\A w \in Workers :
          (workers[w].pc = "cb" /\ workers[w].err # ""
              /\ workers'[w] = IdleWorker)
          => IF Jobs[workers[w].task].RetryCount + 1 >= MaxRetries
             THEN /\ Jobs'[workers[w].task].Status = "dead"
                  /\ Jobs'[workers[w].task].NextRun = ZeroTime
             ELSE /\ Jobs'[workers[w].task].Status = "failed"
                  /\ Jobs'[workers[w].task].NextRun > now]_vars

\* C6: with no ScheduleJob call after the one that created it, a job is
\* submitted to the pool at most MaxRetries + 1 times, however its handler fares.
C6_BoundedSubmits == \A id \in JobIds : submits[id] <= MaxRetries + 1

\* a job that failed once, whose backoff has run out, and that the waiting
\* wake-loop leaves alone
C6_Witness ==
    \E id \in DOMAIN Jobs :
        /\ Jobs[id].Status = "failed" /\ Jobs[id].RetryCount = 1
        /\ Jobs[id].NextRun <= now
        /\ submits[id] = 1
        /\ loop.pc = "wait" /\ cronWakeup = 0

\* C7: whenever the wake-loop puts a task for a job into the pool's queue, that
\* job's status is pending and its next_run is not after the current time.
C7_DispatchOnlyDue ==
    [][\A id \in JobIds :
          tasks' = Append(tasks, id)
          => (Jobs[id].Status = "pending" /\ Jobs[id].NextRun <= now)]_vars

\* the wake-loop has just submitted a job that had run before
C7_Witness ==
    /\ loop.pc = "submitted"
    /\ tasks # <<>>
    /\ Jobs[loop.cur].LastRun # NilTime

\* C8: a ScheduleJob call for a key that already has a job, when it returns no
\* error, leaves exactly one job for the key in the working set and in the
\* store, with the id it had, the new payload, retry_count 0 and status
\* pending, whatever the status was.
C8_UpsertKeepsOneJob ==
    [][\A u \in Users, t \in Types, s \in Schedules, p \in Payloads :
          (Existing(u, t, s) # {} /\ ~ScheduleJobErr(u, t, s, p)
              /\ ScheduleJob(u, t, s, p))
          => \E id \in Existing(u, t, s) :
                 /\ {i \in DOMAIN Jobs' : DedupMatch(Jobs'[i], u, t, s)} = {id}
                 /\ {i \in DOMAIN store' : DedupMatch(store'[i], u, t, s)} = {id}
                 /\ Jobs'[id].Payload = p
                 /\ Jobs'[id].RetryCount = 0
                 /\ Jobs'[id].Status = "pending"
                 /\ store'[id] = Jobs'[id]]_vars

\* a job rescheduled with another payload after it had run and failed
C8_Witness ==
    \E id \in DOMAIN Jobs :
        /\ Jobs[id].Status = "pending" /\ Jobs[id].RetryCount = 0
        /\ Jobs[id].Payload = "B"
        /\ Jobs[id].LastRun # NilTime /\ Jobs[id].LastError = "fail"
        /\ id \in DOMAIN store /\ store[id] = Jobs[id]

\* a step that lowers the retry_count of job id
Lowers(id) ==
    /\ id \in DOMAIN Jobs /\ id \in DOMAIN Jobs'
    /\ Jobs'[id].RetryCount < Jobs[id].RetryCount

\* the step is a success callback on job id
SuccessOn(id) ==
    /\ \E w \in Workers : /\ workers[w].pc = "cb" /\ workers[w].task = id
                          /\ workers[w].err = "" /\ workers'[w] = IdleWorker
    /\ Jobs'[id] = OnSuccess(Jobs[id], now)

\* the step is a ScheduleJob call that found job id
UpsertOn(id) ==
    \E p \in Payloads :
        ScheduleJob(Jobs[id].UserID, Jobs[id].Type, Jobs[id].Schedule, p)

Rejected == {s \in Schedules : ~ParseCron(s).ok}

\* C10 (as stated): a ScheduleJob call with a schedule ParseCron rejects
\* returns an error and changes neither the working set nor the store.
C10_RejectedScheduleIsError ==
    [][\A u \in Users, t \in Types, s \in Rejected, p \in Payloads :
          ScheduleJob(u, t, s, p)
          => (ScheduleJobErr(u, t, s, p) /\ Jobs' = Jobs /\ store' = store)]_vars

\* C10 (amended): a ScheduleJob call with a schedule ParseCron rejects fails
\* only when its store write does; otherwise it leaves the job of that key,
\* created or found, pending with next_run one hour after the call, in the
\* working set and in the store.
C10_RejectedScheduleFallsBack ==
    [][\A u \in Users, t \in Types, s \in Rejected, p \in Payloads :
          ScheduleJob(u, t, s, p)
          => /\ ScheduleJobErr(u, t, s, p) => cancelled
             /\ ~ScheduleJobErr(u, t, s, p)
                =>  \E id \in DOMAIN Jobs' :
                        /\ DedupMatch(Jobs'[id], u, t, s)
                        /\ Jobs'[id].Payload = p
                        /\ Jobs'[id].Status = "pending"
                        /\ Jobs'[id].NextRun
                             = now + FallbackMinutes * TicksPerMinute
                        /\ id \in DOMAIN store' /\ store'[id] = Jobs'[id]]_vars

\* jobs for both rejected schedules, one of them last scheduled at tick 1
C10_Witness ==
    /\ \E id \in DOMAIN Jobs : Jobs[id].Schedule = StepFive
    /\ \E id \in DOMAIN Jobs :
           /\ Jobs[id].Schedule = ThreeFields
           /\ Jobs[id].Payload = "B"
           /\ Jobs[id].NextRun = 1 + FallbackMinutes * TicksPerMinute
           /\ store[id] = Jobs[id]

\* C11 (as stated): every task the pool accepted is executed and gets its
\* callback, also when Stop is called while it is still queued: once Stop has
\* returned, no accepted task is left in the queue.
C11_AcceptedTasksRun == pool.stop = "returned" => tasks = <<>>

\* C12 (as stated): a Stop called after an earlier Stop has returned completes
\* normally as the first did: no call of Stop ever panics.
C12_SecondStopReturns == pool.panic = ""

\* C13 (as stated): with one worker and a queue of two, when two tasks have
\* been accepted back to back and neither has finished executing, the submit
\* of a third task in the same pass is rejected, in every interleaving.
C13_ThirdSubmitRejected ==
    [][\A id \in JobIds :
          (/\ loop.pc = "dispatch" /\ loop.todo = {id} /\ loop' # loop
           /\ Due(Jobs[id], loop.next)
           /\ \A w \in Workers : workers[w].pc \in {"idle", "got", "exec"}
           /\ \A other \in JobIds \ {id} :
                  /\ Jobs[other].Status = "running"
                  /\ submits[other] = 1 /\ InFlight(other) = 1)
          => loop'.pc # "submitted"]_vars

\* C14: when the wake-loop visits a due job and Submit returns false, that
\* dispatch leaves the job pending and its last_run, retry_count, next_run and
\* store row as they were.
C14_RejectedStaysPending ==
    [][\A id \in JobIds :
          (/\ loop.pc = "dispatch" /\ id \in loop.todo
           /\ Due(Jobs[id], loop.next)
           /\ loop'.pc = "dispatch" /\ loop'.todo = loop.todo \ {id})
          => /\ Jobs'[id].Status = "pending"
             /\ Jobs'[id] = Jobs[id]
             /\ store' = store]_vars

\* the wake-loop has passed over a due job because the queue of the running
\* pool was full
C14_Witness ==
    /\ loop.pc = "dispatch"
    /\ \E id \in JobIds \ loop.todo :
           /\ Due(Jobs[id], loop.next)
           /\ Len(tasks) = QueueCap /\ ~pool.isStopped

\* C15 (as stated): with the scheduler and the pool running, handlers
\* returning and every goroutine scheduled fairly, every job that is pending
\* with next_run <= now is eventually accepted by the pool and has its handler
\* invoked, a job whose submit was rejected on a full queue included.
C15_DueJobsRun ==
    \A id \in JobIds :
        (id \in DOMAIN Jobs /\ Jobs[id].Status = "pending"
            /\ Jobs[id].NextRun <= now)
        ~> (\E w \in Workers : workers[w].pc = "exec" /\ workers[w].task = id)

\* C16 (as stated): a failure callback that brings retry_count to k, k below
\* the retry cap MaxRetries, sets next_run = now + min(k * k minutes, 24 h).
C16_QuadraticBackoff ==
    [][\A w \in Workers :
          (/\ workers[w].pc = "cb" /\ workers[w].err # ""
           /\ workers'[w] = IdleWorker
           /\ Jobs[workers[w].task].RetryCount + 1 < MaxRetries)
          => \E k \in {Jobs[workers[w].task].RetryCount + 1} :
                 /\ Jobs'[workers[w].task].RetryCount = k
                 /\ Jobs'[workers[w].task].NextRun
                        = now + TicksPerMinute * Min({k * k, BackoffCapMinutes})]_vars

\* the success callback of worker w runs in this step
SuccessBy(w) ==
    workers[w].pc = "cb" /\ workers[w].err = "" /\ workers'[w] = IdleWorker

\* the first minute boundary after instant t
NextMinute(t) == t + TicksPerMinute - (t % TicksPerMinute)

\* C17 (as stated): on_success sets status completed, last_error "",
\* retry_count 0 and next_run = cron.next(schedule, now), in the store row as
\* in the in-memory copy, and signals the wake-loop.
C17_SuccessWritesBoth ==
    [][\A w \in Workers : SuccessBy(w) =>
          \E id \in {workers[w].task} :
              /\ Jobs'[id].Status = "completed"
              /\ Jobs'[id].LastError = ""
              /\ Jobs'[id].RetryCount = 0
              /\ ParseCron(Jobs[id].Schedule).ok
              /\ Jobs'[id].NextRun = NextMinute(now)
              /\ store'[id] = Jobs'[id]
              /\ cronWakeup' > 0]_vars

\* C17 (amended): on_success sets status completed, last_error "",
\* retry_count 0 and next_run in the in-memory copy, next_run being
\* cron.next(schedule, now) for a schedule ParseCron accepts and now + 1 h for
\* one it rejects; it signals the wake-loop; and while the scheduler's context
\* is live the store row is made equal to the in-memory copy, while after Stop
\* the store row is left as it was.  (The schedules ParseCron accepts are here
\* every-minute ones, whose cron.next is the next minute boundary.)
C17_SuccessWritesLive ==
    [][\A w \in Workers : SuccessBy(w) =>
          \E id \in {workers[w].task} :
              /\ Jobs'[id].Status = "completed"
              /\ Jobs'[id].LastError = ""
              /\ Jobs'[id].RetryCount = 0
              /\ Jobs'[id].NextRun =
                     IF ParseCron(Jobs[id].Schedule).ok THEN NextMinute(now)
                     ELSE now + FallbackMinutes * TicksPerMinute
              /\ store'[id] = IF cancelled THEN store[id] ELSE Jobs'[id]
              /\ cronWakeup' > 0]_vars

\* a success callback has run on a live scheduler for a job that had failed
\* before: the count is back at zero, in memory and in the store
C17_Witness ==
    /\ \A w \in Workers : workers[w] = IdleWorker
    /\ ~cancelled
    /\ Jobs[1].Status = "completed" /\ Jobs[1].RetryCount = 0
    /\ submits[1] > 1
    /\ cronWakeup > 0
    /\ store[1] = Jobs[1]

\* instant t is on a minute boundary and its minute, hour, day of the month,
\* month and weekday each belong to the set schedule c has for it
AllFieldsMatch(c, t) ==
    /\ t % TicksPerMinute = 0
    /\ (t \div TicksPerMinute) % 60 \in c.Minute
    /\ (t \div (60 * TicksPerMinute)) % 24 \in c.Hour
    /\ DateOf(t).Day \in c.Day
    /\ DateOf(t).Month \in c.Month
    /\ WeekdayOf(t) \in c.Weekday

\* C18: for a schedule ParseCron accepted and an instant t, what Next(s, t)
\* returns is minute-aligned, strictly after t, matches all five fields of s
\* (day of the month and weekday both), and no minute-aligned instant between
\* t and it does; so t <- Next(s, t) is strictly increasing.
C18_NextIsLeastMatch ==
    (call.op = "Next" /\ call.ret # NeverReturns)
    => /\ call.ret > call.at
       /\ AllFieldsMatch(call.cron, call.ret)
       /\ \A u \in (call.at + 1)..(call.ret - 1) :
              ~AllFieldsMatch(call.cron, u)

\* Next has passed over the minutes that do not match, from an instant of the
\* 29th of February that is not on a minute boundary to the first of March,
\* for a schedule of the first day of every month
C18_Witness ==
    /\ call.op = "Next"
    /\ call.cron.Day = {1}
    /\ call.at % TicksPerMinute # 0
    /\ DateOf(call.at) = [Month |-> 2, Day |-> 29]
    /\ call.ret > call.at + TicksPerMinute
    /\ DateOf(call.ret) = [Month |-> 3, Day |-> 1]

\* the grammar of a field as the specification gives it: an integer is a run of
\* decimal digits, in range when its value is within min..max
InRangeInteger(s, min, max) ==
    /\ Len(s) > 0
    /\ \A i \in 1..Len(s) : IsDigit(s[i])
    /\ DigitsVal(s) \in min..max

IntegerList(parts, min, max) ==
    \A i \in 1..Len(parts) : InRangeInteger(parts[i], min, max)

IntegerRange(parts, min, max) ==
    /\ Len(parts) = 2
    /\ InRangeInteger(parts[1], min, max)
    /\ InRangeInteger(parts[2], min, max)
    /\ DigitsVal(parts[1]) <= DigitsVal(parts[2])

\* `*`, one integer or a comma-separated list of integers, or a range a-b
GrammarField(field, min, max) ==
    \/ field = <<"*">>
    \/ IntegerList(Split(field, ","), min, max)
    \/ IntegerRange(Split(field, "-"), min, max)

\* the values a field of the grammar lists
ListedValues(field, min, max) ==
    IF field = <<"*">> THEN min..max
    ELSE IF Contains(field, "-")
    THEN DigitsVal(Split(field, "-")[1])..DigitsVal(Split(field, "-")[2])
    ELSE {DigitsVal(Split(field, ",")[i]) : i \in 1..Len(Split(field, ","))}

GrammarFields(fields) ==
    /\ Len(fields) = 5
    /\ GrammarField(fields[1], 0, MinuteMax)
    /\ GrammarField(fields[2], 0, HourMax)
    /\ GrammarField(fields[3], 1, DayMax)
    /\ GrammarField(fields[4], 1, MonthMax)
    /\ GrammarField(fields[5], 0, WeekdayMax)

ListedSchedule(fields) ==
    [ok |-> TRUE,
     Minute |-> ListedValues(fields[1], 0, MinuteMax),
     Hour |-> ListedValues(fields[2], 0, HourMax),
     Day |-> ListedValues(fields[3], 1, DayMax),
     Month |-> ListedValues(fields[4], 1, MonthMax),
     Weekday |-> ListedValues(fields[5], 0, WeekdayMax)]

\* C19 (as stated): ParseCron accepts an expression exactly when it has five
\* whitespace-separated fields, each of them `*`, an in-range integer, a
\* comma-separated list of in-range integers or an in-range range a-b with
\* a <= b; it rejects every other input; and an accepted field parses to the
\* set of the values it lists.
C19_ParseCronGrammar ==
    call.op = "ParseCron"
    => /\ call.cron.ok <=> GrammarFields(Fields(call.expr))
       /\ GrammarFields(Fields(call.expr))
            => call.cron = ListedSchedule(Fields(call.expr))

\* what ListJobs with no options shows of the rows of store st
ListedTuples(st) ==
    {<<id, st[id].UserID, st[id].Type, st[id].Schedule, st[id].Status,
       st[id].RetryCount>> : id \in StoreListJobs(st, NoFilter)}

\* C20: from Stop to the NewScheduler that follows it the store's rows, hence
\* the tuples ListJobs returns, stay as they were just before Stop, and the
\* working set NewScheduler builds holds exactly the store's jobs, by id.
C20_RestartFidelity ==
    [][/\ cancelled => ListedTuples(store') = ListedTuples(store)
       /\ (cancelled /\ ~cancelled')
            => /\ DOMAIN Jobs' = DOMAIN store
               /\ \A id \in DOMAIN store : Jobs'[id] = store[id]
               /\ store' = store]_vars

\* a scheduler just rebuilt on a store that holds a job left running, a job
\* that failed once and a job that completed
C20_Witness ==
    /\ ~cancelled /\ loop.pc = "idle"
    /\ Jobs = store
    /\ \E a \in DOMAIN Jobs, b \in DOMAIN Jobs, c \in DOMAIN Jobs :
           /\ Jobs[a].Status = "running"
           /\ Jobs[b].Status = "failed" /\ Jobs[b].RetryCount = 1
           /\ Jobs[c].Status = "completed"

\* C21 (as stated): a job whose row says running when NewScheduler loads it
\* is dispatched again once the scheduler is started: its handler is invoked.
C21_RunningRunsAgain ==
    \A id \in JobIds :
        (loop.pc = "idle" /\ id \in DOMAIN Jobs /\ Jobs[id].Status = "running")
        ~> (\E w \in Workers : workers[w].pc = "exec" /\ workers[w].task = id)

\* C22 (as stated): ScheduleJob, dispatch and the two callbacks change the
\* in-memory copy of a job only once the store write has succeeded, so
\* whenever the scheduler mutex is free the working set and the store hold the
\* same jobs.
C22_MemoryFollowsStore == JobMuFree => Jobs = store

\* C23 (as stated): Execute entered with a context that is already cancelled
\* returns an error without invoking the handler.
C23_CancelledNotExecuted ==
    [][\A w \in Workers :
          (workers[w].pc = "got" /\ pool.done /\ workers'[w].pc # "got")
          => (workers'[w].pc = "ret" /\ workers'[w].err # "")]_vars

\* C24 (as stated): the callback of a task whose handler returned after the
\* scheduler was stopped changes neither the job's store row nor its
\* in-memory copy.
C24_LateCallbackChangesNothing ==
    [][\A w \in Workers :
          (workers[w].pc = "cb" /\ workers'[w] = IdleWorker)
          => (Jobs' = Jobs /\ store' = store)]_vars

\* C25 (as stated): a task whose job type has no handler never gets
\* on_success: Execute fails without running a handler, and the callback is
\* on_failure, which adds one to retry_count and leaves a last_error that
\* names the missing job type.
C25_MissingHandlerFails ==
    [][\A w \in Workers :
          /\ (/\ workers[w].pc = "got"
              /\ registry[Jobs[workers[w].task].Type] = NoHandler
              /\ workers'[w].pc # "got")
             => (/\ workers'[w].pc = "ret"
                 /\ workers'[w].err = NoHandlerError(Jobs[workers[w].task].Type))
          /\ (/\ workers[w].pc = "cb"
              /\ workers[w].err = NoHandlerError(Jobs[workers[w].task].Type)
              /\ workers'[w] = IdleWorker)
             => (/\ Jobs'[workers[w].task].Status = "failed"
                 /\ Jobs'[workers[w].task].RetryCount
                      = Jobs[workers[w].task].RetryCount + 1
                 /\ Jobs'[workers[w].task].LastError
                      = "no handler registered for job type: "
                        \o Jobs[workers[w].task].Type)]_vars

\* a job failed once for want of a handler
C25_Witness ==
    \E id \in DOMAIN Jobs :
        /\ Jobs[id].Status = "failed"
        /\ Jobs[id].RetryCount = 1
        /\ Jobs[id].LastError = "no handler registered for job type: echo"

\* the handler of the latest call in log[1..n] that registered a handler for
\* type t with a non-empty type and a non-nil handler or unregistered t: the
\* nil handler when that call is an unregister or there is none
RECURSIVE LatestValid(_, _, _)
LatestValid(log, n, t) ==
    IF n = 0 THEN NoHandler
    ELSE IF log[n].type = t /\ log[n].op = "unregister" THEN NoHandler
    ELSE IF /\ log[n].type = t /\ log[n].op = "register"
            /\ t # "" /\ log[n].handler # NoHandler
         THEN log[n].handler
    ELSE LatestValid(log, n - 1, t)

\* C26 (as stated): get(type) returns the handler of the latest valid
\* register for that type that no unregister followed, nil otherwise; a
\* register with an empty type or a nil handler leaves the registry
\* unchanged.
C26_RegistryLatestValid ==
    [][/\ call'.log = call.log
          => call'.ret = LatestValid(call.log, Len(call.log), call'.type)
       /\ \A n \in 1..Len(call'.log) :
             (/\ n > Len(call.log)
              /\ call'.log[n].op = "register"
              /\ (call'.log[n].type = "" \/ call'.log[n].handler = NoHandler))
             => registry' = registry]_vars

\* a handler registered, unregistered and registered anew, and get returning
\* the new one
C26_Witness ==
    /\ call.op = "registry"
    /\ Len(call.log) = 3
    /\ call.log[1] = [op |-> "register", type |-> "echo", handler |-> "h1"]
    /\ call.log[2] = [op |-> "unregister", type |-> "echo", handler |-> NoHandler]
    /\ call.log[3] = [op |-> "register", type |-> "echo", handler |-> "h2"]
    /\ call.type = "echo"
    /\ call.ret = "h2"

\* C27 (as stated): CreateJob fails and leaves the store unchanged when a row
\* with the same (user_id, type, schedule) exists and succeeds when a
\* component of the triple differs from every row's, and no sequence of
\* create, update and delete calls leaves two rows sharing a triple.
C27_CreateKeepsTriplesUnique ==
    [][/\ call'.op = "create"
          => IF \E id \in DOMAIN store : KeyOf(store[id]) = KeyOf(call'.job)
             THEN ~call'.ok /\ store' = store
             ELSE call'.ok /\ store' = Put(store, call'.id, call'.job)
       /\ \A a, b \in DOMAIN store' :
             a # b => KeyOf(store'[a]) # KeyOf(store'[b])]_vars

\* a create refused for its triple, and an update refused for the triple it
\* would give its row
C27_Witness ==
    /\ call.op \in {"create", "update"}
    /\ ~call.ok
    /\ \E id \in DOMAIN store :
           id # call.id /\ KeyOf(store[id]) = KeyOf(call.job)
    /\ Cardinality(DOMAIN store) >= 2

\* what C28 says of the calls on an id without a row and of delete: get,
\* update and delete of an id that has no row return the not-found error and
\* leave the store unchanged, and once an id with a row is deleted a get of
\* it fails
MissingAndDelete ==
    /\ (call'.op \in {"get", "update", "delete"} /\ call'.id \notin DOMAIN store)
       => (~call'.ok /\ call'.err = "job not found" /\ store' = store)
    /\ (call'.op = "delete" /\ call'.id \in DOMAIN store)
       => (/\ call'.ok
           /\ ~GetJob(store', TRUE, call'.id).ok
           /\ \A id \in DOMAIN store \ {call'.id} :
                  id \in DOMAIN store' /\ store'[id] = store[id])

\* C28 (as stated): get, update and delete of an id that has no row return a
\* not-found error and leave the store unchanged; update of an id that has a
\* row replaces that row and no other; after delete of an id that has a row a
\* get of it fails.
C28_UpdateReplacesRow ==
    [][/\ MissingAndDelete
       /\ (call'.op = "update" /\ call'.id \in DOMAIN store)
          => store' = Put(store, call'.id, call'.job)]_vars

\* C28 (amended): get, update and delete of an id that has no row return a
\* not-found error and leave the store unchanged; update of an id that has a
\* row replaces that row and no other unless another row holds the triple of
\* the job given, and then it fails with another error and leaves the store
\* unchanged; after delete of an id that has a row a get of it fails.
C28_UpdateReplacesUnlessTaken ==
    [][/\ MissingAndDelete
       /\ (call'.op = "update" /\ call'.id \in DOMAIN store)
          => IF \E id \in DOMAIN store \ {call'.id} :
                    KeyOf(store[id]) = KeyOf(call'.job)
             THEN ~call'.ok /\ call'.err # "job not found" /\ store' = store
             ELSE call'.ok /\ store' = Put(store, call'.id, call'.job)]_vars

\* an update that gave one of two rows a new payload and a new triple
C28_Witness ==
    /\ call.op = "update"
    /\ call.ok
    /\ Cardinality(DOMAIN store) = 2
    /\ call.id \in DOMAIN store
    /\ store[call.id] = call.job
    /\ call.job.Payload = "B"
    /\ call.job.UserID = "u2"

\* the stored jobs that satisfy every filter of the options opts, the bounds
\* on next_run as the specification gives them
Wanted(st, opts) ==
    {id \in DOMAIN st :
        /\ opts.UserID # "" => st[id].UserID = opts.UserID
        /\ opts.Type # "" => st[id].Type = opts.Type
        /\ opts.Status # "" => st[id].Status = opts.Status
        /\ opts.Before # ZeroTime => ~(st[id].NextRun > opts.Before)
        /\ opts.After # ZeroTime => ~(st[id].NextRun < opts.After)}

\* C29 (as stated): Scheduler.ListJobs returns exactly the stored jobs that
\* satisfy every filter given (user, type, status, none with next_run later
\* than a non-zero Before, none with next_run earlier than a non-zero After),
\* ordered by next_run ascending and cut to the first Limit when Limit > 0.
C29_ListJobsFilters ==
    call.op = "list" =>
        /\ \A i, j \in DOMAIN call.ret : i # j => call.ret[i] # call.ret[j]
        /\ \A i \in DOMAIN call.ret : call.ret[i] \in Wanted(store, call.opts)
        /\ \A i, j \in DOMAIN call.ret :
               i < j => store[call.ret[i]].NextRun <= store[call.ret[j]].NextRun
        /\ Len(call.ret)
             = IF /\ call.opts.Limit > 0
                  /\ Cardinality(Wanted(store, call.opts)) > call.opts.Limit
               THEN call.opts.Limit
               ELSE Cardinality(Wanted(store, call.opts))
        /\ \A id \in Wanted(store, call.opts) :
               (\A i \in DOMAIN call.ret : call.ret[i] # id)
               => \A i \in DOMAIN call.ret :
                      store[call.ret[i]].NextRun <= store[id].NextRun

\* C30 (as stated): when WorkerPool.Stop has returned no worker is running:
\* every worker goroutine has exited, and every task a worker had received
\* has returned from Execute and had its callback, which left its job
\* completed or failed.
C30_StopWaitsForTasks ==
    pool.stop = "returned" =>
        /\ \A w \in Workers : workers[w].pc = "exited"
        /\ \A id \in JobIds :
               (submits[id] > 0 /\ \A i \in 1..Len(tasks) : tasks[i] # id)
               => Jobs[id].Status \in {"completed", "failed"}

\* Stop has returned after a task ran to its callback, another still queued
C30_Witness ==
    /\ pool.stop = "returned"
    /\ \E id \in JobIds : submits[id] > 0 /\ Jobs[id].Status = "completed"
    /\ tasks # <<>>

\* the calls of Process that have returned an error so far
Failures == IF call.called <= call.failCount THEN call.called ELSE call.failCount

C32_SubmitReturns == (loop.pc = "submitted") ~> (loop.pc # "submitted")

\* C34 (as stated): Next terminates for every schedule ParseCron accepts and
\* every instant: whenever Next is called, its loop has an instant at which
\* all five fields test true, "0 0 31 2 *" and "0 0 30 2 *" included.
C34_NextTerminates == call.op = "Next" => HasMatch(call.cron)

\* the status transitions of one job the lifecycle allows: pending to running,
\* running to completed, failed or dead, and any status to pending
Serialized(from, to) ==
    \/ from = to
    \/ to = "pending"
    \/ from = "pending" /\ to = "running"
    \/ from = "running" /\ to \in {"completed", "failed", "dead"}

\* C35 (as stated): within one job id the lifecycle is serialized: a callback
\* (on_success or on_failure) is applied only to a job whose status is running,
\* and the status of a job changes only from pending to running, from running
\* to completed, failed or dead, and from any status to pending.
C35_LifecycleSerialized ==
    [][/\ \A w \in Workers :
             (workers[w].pc = "cb" /\ workers'[w] = IdleWorker)
             => Jobs[workers[w].task].Status = "running"
       /\ \A id \in DOMAIN Jobs :
             Serialized(Jobs[id].Status, Jobs'[id].Status)]_vars

\* C36 (as stated): every change to a field of a job of the working set is
\* made by a thread that holds the scheduler mutex; a handler running on a
\* worker never writes the status, retry_count, last_error or next_run of the
\* job it was given: the step in which a handler runs and returns leaves every
\* job as it was.
C36_HandlerWritesNothing ==
    [][\A w \in Workers :
          (workers[w].pc = "exec" /\ workers'[w].pc = "ret") => Jobs' = Jobs]_vars

\* C37 (as stated): cancelling the scheduler's context (Scheduler.Stop)
\* cancels the context every in-flight handler was invoked with: once the
\* scheduler's context is done, the context of every handler still executing
\* is done.
C37_StopCancelsHandlers ==
    cancelled => \A w \in Workers : workers[w].pc = "exec" => HandlerCtxDone

\* C38 (as stated): no wake-up is lost: whenever a signal is in the wake-up
\* channel, left there by a callback, a ScheduleJob or a ForceCheck, the
\* wake-loop comes to recompute the earliest pending next_run afterwards.
C38_NoWakeupLost == (cronWakeup > 0) ~> (loop.pc = "compute")

\* C39 (as stated): after Scheduler.Stop is called the wake-loop goroutine
\* exits, so that Stop returns from its wait, in every fair execution, whatever
\* dispatches and callbacks are in progress.
C39_StopReturns == cancelled ~> (loop.pc = "done")

\* C33 (as stated): a Submit running concurrently with the pool's Stop never
\* panics: in every interleaving of its stopped-check and send with Stop's
\* flag and close it returns true or false.
C33_SubmitNeverPanics == call.op = "submit" => call.pc # "panicked"

====
